---- MODULE Spec2Model ----
(***************************************************************************)
(* Model of the WhatsApp scheduling bot: the calendar tools (schedule,     *)
(* reschedule, cancel, available slots) working on one tenant's calendar,  *)
(* the webhook message deduplication, the message pipeline and the turns   *)
(* of the agent, the conversation memory of all tenants, and the           *)
(* encryption of stored credentials in the admin console.                  *)
(*                                                                         *)
(* Times are minutes counted from midnight of day 0 of the model.          *)
(***************************************************************************)
EXTENDS Integers, Sequences, FiniteSets, TLC

VARIABLES
    appts,           \* the tenant's calendar: sequence of appointments, in creation order
    now,             \* the clock, in minutes
    max_concurrent,  \* appointment_settings.max_concurrent of the tenant
    call,            \* per caller: the schedule_appointment invocation in progress
    reply,           \* what the step just taken returned to the agent, if it returned
    dedup_mode,      \* backing of the deduplication store: "durable" or "memory"
    processed,       \* per message id: when its record was written, or NoRecord
    trues,           \* per message id: how many claims have returned true (history)
    worker,          \* per caller: the webhook request it is serving
    thread,          \* per user: the conversation history, oldest first
    outbox,          \* the replies sent, in dispatch order: message id and body
    deliveries,      \* number of webhook requests received so far
    conversations,   \* the conversations table: rows in insertion order
    probe,           \* a pure function under examination: its input and its output
    businesses,      \* admin console: the businesses table, per business id
    users,           \* admin console: the users table, per email
    user_businesses, \* admin console: per user and business, the role assigned
    whatsapp_numbers,\* admin console: the whatsapp_numbers table, a set of rows
    sessions,        \* admin console: per browser, the session its JWT carries
    requests,        \* admin console: per request slot, the server action running
    response,        \* admin console: what the server action just finished returned
    business_context,\* the process-wide business context the calendar tools read
    turns            \* per caller: the generate_response call of a tenant in progress

pipe_vars == <<dedup_mode, processed, trues, worker, thread, outbox, deliveries>>

ext_vars == <<conversations, probe>>

console_vars == <<businesses, users, user_businesses, whatsapp_numbers, sessions,
                  requests, response>>

tenant_vars == <<business_context, turns>>

vars == <<appts, now, max_concurrent, call, reply,
          dedup_mode, processed, trues, worker, thread, outbox, deliveries,
          conversations, probe,
          businesses, users, user_businesses, whatsapp_numbers, sessions,
          requests, response, business_context, turns>>

----------------------------------------------------------------------------
(* Bounds and inputs of the model *)

\* appointments (and calls in flight) the calendar may hold beyond max_concurrent
MaxOverbook == 1

\* webhook requests received in a behaviour of the message pipeline
MaxDeliveries == 3

Users == {"u1", "u2"}

\* the tenants; DefaultBusiness is 00000000-0000-0000-0000-000000000001
Businesses == {"b1", "b2"}
DefaultBusiness == "b1"
Callers == {"c1", "c2"}

HM(h, m) == h * 60 + m

DayMinutes == HM(24, 0)
SlotMinutes == HM(0, 30)

\* requested start times (10:00 and 11:00 of day 0); every service lasts
\* default_duration_minutes
Starts == {HM(10, 0), HM(11, 0)}
Durations == {HM(1, 0)}

\* the start time the model asks for
TurnStarts == {HM(10, 0)}

\* the instants the clock passes through: 00:00 and 10:01 of day 0
ClockValues == {0, HM(10, 1)}

\* the message ids delivered and who sent them
MsgIds == {"m1", "m2", "m3"}
Sender == [m1 |-> "u1", m2 |-> "u2", m3 |-> "u1"]
Kinds == {"message", "status"}

\* the message ids delivered where every user sends one message
PipelineMsgIds == {"m1", "m2"}

\* the in-memory cache forgets a message id after 24 hours
TtlMinutes == HM(24, 0)

\* the instant the clock of the message pipeline passes through: 24:01
PipelineClockValues == {HM(24, 1)}

\* values of appointment_settings.max_concurrent (the default tenant has 2)
MaxConcurrentChoices == {1, 2}

\* "recent appointment creation (within 5 minutes)"
LookBackMinutes == 5

\* the days of the model: day 0 is a saturday, day 1 a sunday
Days == {0, 1}

\* the date ranges asked for: both days
DateRanges == {<<0, 1>>}

\* business_hours of the default tenant: saturday 09:00-18:00, sunday closed
BusinessHours(d) ==
    IF d % 7 = 0
    THEN [closed |-> FALSE, open |-> HM(9, 0), close |-> HM(18, 0)]
    ELSE [closed |-> TRUE, open |-> 0, close |-> 0]

----------------------------------------------------------------------------
(* The calendar *)

Confirmed(i) == appts[i].status = "confirmed"

\* an overlap test that takes the intervals as closed
OverlapsClosed(a, b, c, d) == a <= d /\ c <= b

\* two half-open intervals [a,b) and [c,d) overlap iff a < d and c < b
Overlaps(a, b, c, d) == a < d /\ c < b

\* a count that does not leave out the skipped appointments
OverlappingEventsAll(s, e, skip) ==
    {i \in DOMAIN appts :
        appts[i].status = "confirmed"
            /\ appts[i].start < e /\ s < appts[i].end}

\* the confirmed appointments, other than those in skip, that overlap [s,e)
OverlappingEvents(s, e, skip) ==
    {i \in DOMAIN appts \ skip :
        Confirmed(i) /\ Overlaps(appts[i].start, appts[i].end, s, e)}

get_max_concurrent == max_concurrent

\* a capacity check that lets one booking too many through
check_overlapping_events_lenient(s, e) ==
    LET event_count == Cardinality(OverlappingEvents(s, e, {}))
    IN  [has_overlap |-> event_count > get_max_concurrent,
         event_count |-> event_count]

\* a capacity check that also counts the appointments that only touch [s,e)
check_overlapping_events_closed(s, e) ==
    LET event_count ==
            Cardinality({i \in DOMAIN appts :
                Confirmed(i) /\ OverlapsClosed(appts[i].start, appts[i].end, s, e)})
    IN  [has_overlap |-> event_count >= get_max_concurrent,
         event_count |-> event_count]

\* check_overlapping_events: (has_overlap, event_count)
check_overlapping_events(s, e) ==
    LET event_count == Cardinality(OverlappingEvents(s, e, {}))
    IN  [has_overlap |-> event_count >= get_max_concurrent,
         event_count |-> event_count]

\* an appointment of the same user for the same interval created within the
\* look-back window
RecentDuplicate(u, s, e) ==
    \E i \in DOMAIN appts :
        /\ Confirmed(i)
        /\ appts[i].user = u
        /\ appts[i].start = s
        /\ appts[i].end = e
        /\ now - appts[i].created <= LookBackMinutes

Upcoming(i) == appts[i].start >= now

\* the user's upcoming confirmed appointments
UserUpcoming(u) ==
    {i \in DOMAIN appts : appts[i].user = u /\ Confirmed(i) /\ Upcoming(i)}

\* the oldest of the user's upcoming confirmed appointments
OldestUpcoming(u) ==
    CHOOSE i \in UserUpcoming(u) : \A j \in UserUpcoming(u) : j >= i

\* the most recently created one of them
MostRecentUpcoming(u) ==
    CHOOSE i \in UserUpcoming(u) : \A j \in UserUpcoming(u) : j <= i

----------------------------------------------------------------------------
(* Available slots *)

DayStart(d) == d * DayMinutes

\* the starts of the grid cells [t, t + SlotMinutes) that lie in [a,b)
GridCells(a, b) ==
    {a + k * SlotMinutes : k \in 0 .. ((b - a) \div SlotMinutes) - 1}

\* a cell counted as saturated only beyond max_concurrent
SaturatedBeyond(t) ==
    Cardinality(OverlappingEvents(t, t + SlotMinutes, {})) > get_max_concurrent

\* max_concurrent confirmed bookings already cover the cell that starts at t
Saturated(t) ==
    Cardinality(OverlappingEvents(t, t + SlotMinutes, {})) >= get_max_concurrent

\* the cells of day d inside the business hours that are not saturated
FreeCells(d) ==
    IF BusinessHours(d).closed
    THEN {}
    ELSE {t \in GridCells(DayStart(d) + BusinessHours(d).open,
                          DayStart(d) + BusinessHours(d).close) :
            ~Saturated(t)}

\* the end of the free window that starts at cell s
WindowEnd(F, s) ==
    LET ends == {t + SlotMinutes : t \in {x \in F : x >= s /\ x + SlotMinutes \notin F}}
    IN  CHOOSE e \in ends : \A y \in ends : e <= y

RECURSIVE WindowsFrom(_, _)
\* the free windows that start at the cells of S, earliest first
WindowsFrom(F, S) ==
    IF S = {}
    THEN <<>>
    ELSE LET s == CHOOSE x \in S : \A y \in S : x <= y
         IN  <<[start |-> s, end |-> WindowEnd(F, s)]>>
                 \o WindowsFrom(F, S \ {s})

DayWindows(d) ==
    LET F == FreeCells(d)
    IN  WindowsFrom(F, {t \in F : t - SlotMinutes \notin F})

RECURSIVE AvailableSlots(_, _)
\* get_available_slots for the days first..last
AvailableSlots(first, last) ==
    IF first > last
    THEN <<>>
    ELSE DayWindows(first) \o AvailableSlots(first + 1, last)

----------------------------------------------------------------------------
(* Tool invocations *)

IdleCall ==
    [pc |-> "idle", user |-> "none", start |-> 0, end |-> 0, race |-> "none"]

NoReply == [op |-> "none", result |-> "none", slots |-> <<>>]

Returned(op, r) == [op |-> op, result |-> r, slots |-> <<>>]

InFlight == {q \in Callers : call[q].pc # "idle"}

\* a caller in flight that has not checked yet, for the same interval, while
\* exactly one capacity slot is left for it
Rivals(p, s, e) ==
    {q \in InFlight \ {p} :
        /\ call[q].pc = "overlap"
        /\ call[q].start = s /\ call[q].end = e
        /\ call[q].race = "none"
        /\ Cardinality(OverlappingEvents(s, e, {})) = max_concurrent - 1}

\* schedule_appointment is entered: customer_service.create_or_update_customer
ScheduleEnter(p, u, s, d) ==
    /\ call[p].pc = "idle"
    /\ Len(appts) + Cardinality(InFlight) < max_concurrent + MaxOverbook
    /\ LET entered == [IdleCall EXCEPT !.pc = "overlap", !.user = u,
                                       !.start = s, !.end = s + d]
       IN  IF Rivals(p, s, s + d) # {}
           THEN LET q == CHOOSE q \in Rivals(p, s, s + d) : TRUE
                IN  call' = [call EXCEPT ![p] = [entered EXCEPT !.race = "racing"],
                                         ![q].race = "racing"]
           ELSE call' = [call EXCEPT ![p] = entered]

ScheduleBegin(p, u, s, d) ==
    /\ ScheduleEnter(p, u, s, d)
    /\ reply' = NoReply
    /\ UNCHANGED <<appts, now, max_concurrent>>
    /\ UNCHANGED pipe_vars
    /\ UNCHANGED ext_vars
    /\ UNCHANGED console_vars
    /\ UNCHANGED tenant_vars

\* caller p returns r: its rival in a race, if still in flight, has seen it
Finish(p, r) ==
    [q \in Callers |->
        IF q = p THEN IdleCall
        ELSE IF call[p].race = "racing" /\ call[q].race = "racing"
             THEN [call[q] EXCEPT !.race = r]
             ELSE call[q]]

\* the overlap check of schedule_appointment
ScheduleCheckOverlap(p) ==
    /\ call[p].pc = "overlap"
    /\ IF check_overlapping_events(call[p].start, call[p].end).has_overlap
       THEN /\ call' = Finish(p, "CapacityExceeded")
            /\ reply' = Returned("schedule", "CapacityExceeded")
       ELSE /\ call' = [call EXCEPT ![p].pc = "duplicate"]
            /\ reply' = NoReply
    /\ UNCHANGED <<appts, now, max_concurrent>>
    /\ UNCHANGED pipe_vars
    /\ UNCHANGED ext_vars
    /\ UNCHANGED console_vars
    /\ UNCHANGED tenant_vars

\* the duplicate prevention check of schedule_appointment
ScheduleCheckDuplicate(p) ==
    /\ call[p].pc = "duplicate"
    /\ IF RecentDuplicate(call[p].user, call[p].start, call[p].end)
       THEN /\ call' = Finish(p, "DuplicateSuppressed")
            /\ reply' = Returned("schedule", "DuplicateSuppressed")
       ELSE /\ call' = [call EXCEPT ![p].pc = "create"]
            /\ reply' = NoReply
    /\ UNCHANGED <<appts, now, max_concurrent>>
    /\ UNCHANGED pipe_vars
    /\ UNCHANGED ext_vars
    /\ UNCHANGED console_vars
    /\ UNCHANGED tenant_vars

\* calendar_service.create_event
create_event(u, s, e) ==
    Append(appts, [user |-> u, start |-> s, end |-> e,
                   status |-> "confirmed", created |-> now])

ScheduleCreate(p) ==
    /\ call[p].pc = "create"
    /\ appts' = create_event(call[p].user, call[p].start, call[p].end)
    /\ call' = Finish(p, "Appointment")
    /\ reply' = Returned("schedule", "Appointment")
    /\ UNCHANGED <<now, max_concurrent>>
    /\ UNCHANGED pipe_vars
    /\ UNCHANGED ext_vars
    /\ UNCHANGED console_vars
    /\ UNCHANGED tenant_vars

\* a mutation by another operation ends a race between two schedule calls
EndRaces == [q \in Callers |-> [call[q] EXCEPT !.race = "none"]]

\* reschedule_appointment: one atomic operation
Reschedule(u, s, d) ==
    /\ IF UserUpcoming(u) = {}
       THEN /\ reply' = Returned("reschedule", "NotFound")
            /\ UNCHANGED <<appts, call>>
       ELSE LET i == MostRecentUpcoming(u)
            IN  IF Cardinality(OverlappingEvents(s, s + d, {i})) >= get_max_concurrent
                THEN /\ reply' = Returned("reschedule", "CapacityExceeded")
                     /\ UNCHANGED <<appts, call>>
                ELSE /\ appts' = [appts EXCEPT ![i].start = s, ![i].end = s + d]
                     /\ reply' = Returned("reschedule", "Appointment")
                     /\ call' = EndRaces
    /\ UNCHANGED <<now, max_concurrent>>
    /\ UNCHANGED pipe_vars
    /\ UNCHANGED ext_vars
    /\ UNCHANGED console_vars
    /\ UNCHANGED tenant_vars

\* cancel_appointment: one atomic operation
Cancel(u) ==
    /\ IF UserUpcoming(u) = {}
       THEN /\ reply' = Returned("cancel", "NotFound")
            /\ UNCHANGED <<appts, call>>
       ELSE LET i == MostRecentUpcoming(u)
            IN  /\ appts' = [appts EXCEPT ![i].status = "canceled"]
                /\ reply' = Returned("cancel", "Ok")
                /\ call' = EndRaces
    /\ UNCHANGED <<now, max_concurrent>>
    /\ UNCHANGED pipe_vars
    /\ UNCHANGED ext_vars
    /\ UNCHANGED console_vars
    /\ UNCHANGED tenant_vars

\* get_available_slots: reads the calendar, changes nothing
GetAvailableSlots(first, last) ==
    /\ reply' = [op |-> "slots", result |-> "Ok",
                 slots |-> AvailableSlots(first, last)]
    /\ UNCHANGED <<appts, now, max_concurrent, call>>
    /\ UNCHANGED pipe_vars
    /\ UNCHANGED ext_vars
    /\ UNCHANGED console_vars
    /\ UNCHANGED tenant_vars

\* time passes
Tick(t) ==
    /\ t > now
    /\ now' = t
    /\ reply' = NoReply
    /\ UNCHANGED <<appts, max_concurrent, call>>
    /\ UNCHANGED pipe_vars
    /\ UNCHANGED ext_vars
    /\ UNCHANGED console_vars
    /\ UNCHANGED tenant_vars

----------------------------------------------------------------------------
(* The deduplication store *)

NoRecord == -1

\* a lookup that does not look at the message id
HasAnyRecord(id) == \E j \in MsgIds : processed[j] # NoRecord

\* processed_messages (or the memory cache) holds a record for the id
HasRecord(id) == processed[id] # NoRecord

\* a time-to-live applied to the database table as well
ExpiredAnyMode(id) == now - processed[id] > TtlMinutes

\* the memory cache drops a record when its time-to-live has run out
Expired(id) == dedup_mode = "memory" /\ now - processed[id] > TtlMinutes

\* a store that reports every message id as new
IsNewAlways(id) == TRUE

\* claim(message_id) -> isNew, one atomic compare-and-set
IsNew(id) == ~HasRecord(id) \/ Expired(id)

\* the store after claim(id)
Claimed(id) == IF IsNew(id) THEN [processed EXCEPT ![id] = now] ELSE processed

----------------------------------------------------------------------------
(* The message pipeline *)

IdleWorker ==
    [pc |-> "idle", id |-> "none", kind |-> "none", channel |-> "none",
     llm_calls |-> 0, answer |-> "none", todo |-> 0]

\* the channels (phone_number_id) a delivery may be addressed to
Channels == {"known", "unknown"}

\* no tenant
NoBusiness == "none"

\* business_service.get_business_context(phone_number_id): the tenant of the
\* channel, or None
get_business_context(channel) ==
    IF channel = "known" THEN DefaultBusiness ELSE NoBusiness

\* POST /webhook: @signature_required, then handle_message is entered
webhook_post(w, id, kind, signed, channel) ==
    /\ worker[w].pc = "idle"
    /\ call[w].pc = "idle"
    /\ deliveries < MaxDeliveries
    /\ deliveries' = deliveries + 1
    /\ IF signed
       THEN /\ worker' = [worker EXCEPT ![w] =
                            [IdleWorker EXCEPT !.pc = "handle", !.id = id,
                                               !.kind = kind, !.channel = channel]]
            /\ reply' = NoReply
       ELSE /\ worker' = worker
            /\ reply' = Returned("webhook", "Forbidden")
    /\ UNCHANGED <<dedup_mode, processed, trues, thread, outbox>>
    /\ UNCHANGED <<appts, now, max_concurrent, call>>
    /\ UNCHANGED ext_vars
    /\ UNCHANGED console_vars
    /\ UNCHANGED tenant_vars

\* handle_message: status updates are ignored, duplicates return 200 at once,
\* a new message goes on to process_whatsapp_message, whatever
\* get_business_context returns for its channel
handle_message(w) ==
    /\ worker[w].pc = "handle"
    /\ IF worker[w].kind = "status"
       THEN /\ worker' = [worker EXCEPT ![w] = IdleWorker]
            /\ reply' = Returned("webhook", "Ok")
            /\ UNCHANGED <<processed, trues>>
       ELSE /\ processed' = Claimed(worker[w].id)
            /\ IF IsNew(worker[w].id)
               THEN /\ trues' = [trues EXCEPT ![worker[w].id] = @ + 1]
                    /\ worker' = [worker EXCEPT ![w].pc = "generate"]
                    /\ reply' = Returned("claim", "New")
               ELSE /\ trues' = trues
                    /\ worker' = [worker EXCEPT ![w] = IdleWorker]
                    /\ reply' = Returned("claim", "Duplicate")
    /\ UNCHANGED <<dedup_mode, thread, outbox, deliveries>>
    /\ UNCHANGED <<appts, now, max_concurrent, call>>
    /\ UNCHANGED ext_vars
    /\ UNCHANGED console_vars
    /\ UNCHANGED tenant_vars

\* generate_response: the model is invoked; it answers with text, or with
\* tool_calls schedule_appointment calls, the first of which is entered
generate_response(w, tool_calls, s, d) ==
    /\ worker[w].pc = "generate"
    /\ IF tool_calls > 0
       THEN /\ ScheduleEnter(w, Sender[worker[w].id], s, d)
            /\ worker' = [worker EXCEPT ![w].pc = "tools", ![w].llm_calls = 1,
                                        ![w].todo = tool_calls - 1]
       ELSE /\ call' = call
            /\ worker' = [worker EXCEPT ![w].pc = "store_user",
                                        ![w].llm_calls = 1, ![w].answer = "text"]
    /\ reply' = NoReply
    /\ UNCHANGED <<dedup_mode, processed, trues, thread, outbox, deliveries>>
    /\ UNCHANGED <<appts, now, max_concurrent>>
    /\ UNCHANGED ext_vars
    /\ UNCHANGED console_vars
    /\ UNCHANGED tenant_vars

\* generate_response: "for tool_call in response.tool_calls" goes on to the
\* next tool call of the response
next_tool_call(w, s, d) ==
    /\ worker[w].pc = "tools"
    /\ worker[w].todo > 0
    /\ ScheduleEnter(w, Sender[worker[w].id], s, d)
    /\ worker' = [worker EXCEPT ![w].todo = @ - 1]
    /\ reply' = NoReply
    /\ UNCHANGED <<dedup_mode, processed, trues, thread, outbox, deliveries>>
    /\ UNCHANGED <<appts, now, max_concurrent>>
    /\ UNCHANGED ext_vars
    /\ UNCHANGED console_vars
    /\ UNCHANGED tenant_vars

\* tool.invoke raises (the calendar API call of check_overlapping_events or of
\* create_event fails): nothing catches it in generate_response,
\* process_whatsapp_message or handle_message, and the request ends in error
tool_invoke_raises(w) ==
    /\ worker[w].pc = "tools"
    /\ call[w].pc \in {"overlap", "create"}
    /\ call' = Finish(w, "Error")
    /\ worker' = [worker EXCEPT ![w] = IdleWorker]
    /\ reply' = Returned("webhook", "Error")
    /\ UNCHANGED <<dedup_mode, processed, trues, thread, outbox, deliveries>>
    /\ UNCHANGED <<appts, now, max_concurrent>>
    /\ UNCHANGED ext_vars
    /\ UNCHANGED console_vars
    /\ UNCHANGED tenant_vars

\* generate_response: the tools have returned and the model is invoked with the
\* tool results; what it answers, text or tool calls again, is final_response
final_response(w, again) ==
    /\ worker[w].pc = "tools"
    /\ worker[w].todo = 0
    /\ call[w].pc = "idle"
    /\ worker' = [worker EXCEPT ![w].pc = "store_user", ![w].llm_calls = 2,
                                ![w].answer = IF again THEN "tool_calls" ELSE "text"]
    /\ reply' = NoReply
    /\ UNCHANGED <<dedup_mode, processed, trues, thread, outbox, deliveries>>
    /\ UNCHANGED <<appts, now, max_concurrent, call>>
    /\ UNCHANGED ext_vars
    /\ UNCHANGED console_vars
    /\ UNCHANGED tenant_vars

\* a history that stores the user messages only
add_to_conversation_history_user_only(u, role, id) ==
    IF role = "user"
    THEN [thread EXCEPT ![u] = Append(@, [role |-> role, id |-> id])]
    ELSE thread

\* add_to_conversation_history(wa_id, role, ...)
add_to_conversation_history(u, role, id) ==
    [thread EXCEPT ![u] = Append(@, [role |-> role, id |-> id])]

StoreUserTurn(w) ==
    /\ worker[w].pc = "store_user"
    /\ thread' = add_to_conversation_history(Sender[worker[w].id], "user", worker[w].id)
    /\ worker' = [worker EXCEPT ![w].pc = "store_assistant"]
    /\ reply' = NoReply
    /\ UNCHANGED <<dedup_mode, processed, trues, outbox, deliveries>>
    /\ UNCHANGED <<appts, now, max_concurrent, call>>
    /\ UNCHANGED ext_vars
    /\ UNCHANGED console_vars
    /\ UNCHANGED tenant_vars

StoreAssistantTurn(w) ==
    /\ worker[w].pc = "store_assistant"
    /\ thread' = add_to_conversation_history(Sender[worker[w].id], "assistant",
                                              worker[w].id)
    /\ worker' = [worker EXCEPT ![w].pc = "send"]
    /\ reply' = NoReply
    /\ UNCHANGED <<dedup_mode, processed, trues, outbox, deliveries>>
    /\ UNCHANGED <<appts, now, max_concurrent, call>>
    /\ UNCHANGED ext_vars
    /\ UNCHANGED console_vars
    /\ UNCHANGED tenant_vars

\* send_message(final_response.content), then handle_message returns 200
send_message(w) ==
    /\ worker[w].pc = "send"
    /\ outbox' = Append(outbox, [id |-> worker[w].id, body |-> worker[w].answer])
    /\ worker' = [worker EXCEPT ![w] = IdleWorker]
    /\ reply' = Returned("webhook", "Ok")
    /\ UNCHANGED <<dedup_mode, processed, trues, thread, deliveries>>
    /\ UNCHANGED <<appts, now, max_concurrent, call>>
    /\ UNCHANGED ext_vars
    /\ UNCHANGED console_vars
    /\ UNCHANGED tenant_vars

\* the admin console's accounts, by email; businesses are Businesses
Accounts == {"root", "ana", "ben"}

\* the slots in which server actions of the admin console run concurrently
Requests == {"r1", "r2"}

\* no businesses row with this id
NoBusinessRow == [name |-> "none"]

\* a businesses row that was deleted: its id is never issued again
DeletedBusinessRow == [name |-> "deleted"]

\* no users row with this email
NoUser == [role |-> "absent"]

\* the browsers that call the admin console: one per account, and one that
\* never signs in
Browsers == Accounts \cup {"anon"}

\* the session of a browser that is not signed in
NoSession == [id |-> "none", role |-> "none", businesses |-> {}]

IdleRequest ==
    [pc |-> "idle", caller |-> "none", business |-> "none", read |-> <<>>, arg |-> <<>>]

NoResponse ==
    [action |-> "none", caller |-> "none", business |-> "none", success |-> FALSE,
     error |-> "none"]

\* the admin console is not in use: its tables are empty, nobody is signed in
NoConsole ==
    /\ businesses = [b \in Businesses |-> NoBusinessRow]
    /\ users = [a \in Accounts |-> NoUser]
    /\ user_businesses = [a \in Accounts, b \in Businesses |-> "none"]
    /\ whatsapp_numbers = <<>>
    /\ sessions = [c \in Browsers |-> NoSession]
    /\ requests = [r \in Requests |-> IdleRequest]
    /\ response = NoResponse

IdleTurn == [pc |-> "idle", business |-> "none", read |-> 0]

\* no business context was set, no turn of a tenant is running
NoTenants ==
    /\ business_context = NoBusiness
    /\ turns = [w \in Callers |-> IdleTurn]

NoProbe == [fn |-> "none", in |-> <<>>, out |-> <<>>]

NoPipeline ==
    /\ conversations = <<>>
    /\ probe = NoProbe
    /\ processed = [id \in MsgIds |-> NoRecord]
    /\ trues = [id \in MsgIds |-> 0]
    /\ worker = [w \in Callers |-> IdleWorker]
    /\ thread = [u \in Users |-> <<>>]
    /\ outbox = <<>>
    /\ deliveries = 0

InitPipeline ==
    /\ appts = <<>>
    /\ now = 0
    /\ max_concurrent = 2
    /\ call = [p \in Callers |-> IdleCall]
    /\ reply = NoReply
    /\ dedup_mode \in {"durable", "memory"}
    /\ NoConsole
    /\ NoTenants
    /\ NoPipeline

NextPipeline ==
    \/ \E w \in Callers, id \in PipelineMsgIds, kind \in Kinds, signed \in BOOLEAN :
            webhook_post(w, id, kind, signed, "known")
    \/ \E w \in Callers : handle_message(w)
    \/ \E w \in Callers, tool_calls \in {0, 1}, s \in TurnStarts, d \in Durations :
            generate_response(w, tool_calls, s, d)
    \/ \E p \in Callers : ScheduleCheckOverlap(p)
    \/ \E p \in Callers : ScheduleCheckDuplicate(p)
    \/ \E p \in Callers : ScheduleCreate(p)
    \/ \E w \in Callers : final_response(w, FALSE)
    \/ \E w \in Callers : StoreUserTurn(w)
    \/ \E w \in Callers : StoreAssistantTurn(w)
    \/ \E w \in Callers : send_message(w)
    \/ \E t \in PipelineClockValues : Tick(t)

SpecPipeline == InitPipeline /\ [][NextPipeline]_vars

----------------------------------------------------------------------------
(* The turns of the agent: every answer of the model, every channel *)

\* the message ids delivered: a burst of two messages of one user
TurnMsgIds == {"m1", "m3"}

\* how many tool calls a response of the model may hold
ToolCallCounts == {0, 1, 2}

InitTurns ==
    /\ appts = <<>>
    /\ now = 0
    /\ max_concurrent = 2
    /\ call = [p \in Callers |-> IdleCall]
    /\ reply = NoReply
    /\ dedup_mode = "durable"
    /\ NoConsole
    /\ NoTenants
    /\ NoPipeline

NextTurns ==
    \/ \E w \in Callers, id \in TurnMsgIds, kind \in Kinds, signed \in BOOLEAN,
          channel \in Channels :
            webhook_post(w, id, kind, signed, channel)
    \/ \E w \in Callers : handle_message(w)
    \/ \E w \in Callers, tool_calls \in ToolCallCounts, s \in TurnStarts,
          d \in Durations :
            generate_response(w, tool_calls, s, d)
    \/ \E w \in Callers, s \in TurnStarts, d \in Durations :
            next_tool_call(w, s, d)
    \/ \E p \in Callers : ScheduleCheckOverlap(p)
    \/ \E p \in Callers : ScheduleCheckDuplicate(p)
    \/ \E p \in Callers : ScheduleCreate(p)
    \/ \E w \in Callers : tool_invoke_raises(w)
    \/ \E w \in Callers, again \in BOOLEAN : final_response(w, again)
    \/ \E w \in Callers : StoreUserTurn(w)
    \/ \E w \in Callers : StoreAssistantTurn(w)
    \/ \E w \in Callers : send_message(w)

SpecTurns == InitTurns /\ [][NextTurns]_vars

----------------------------------------------------------------------------
(* The scheduling engine on its own *)

InitSched ==
    /\ appts = <<>>
    /\ now = 0
    /\ max_concurrent \in MaxConcurrentChoices
    /\ call = [p \in Callers |-> IdleCall]
    /\ reply = NoReply
    /\ dedup_mode = "durable"
    /\ NoConsole
    /\ NoTenants
    /\ NoPipeline

NextSched ==
    \/ \E p \in Callers, u \in Users, s \in Starts, d \in Durations :
            ScheduleBegin(p, u, s, d)
    \/ \E p \in Callers : ScheduleCheckOverlap(p)
    \/ \E p \in Callers : ScheduleCheckDuplicate(p)
    \/ \E p \in Callers : ScheduleCreate(p)
    \/ \E u \in Users : Cancel(u)
    \/ \E t \in ClockValues : Tick(t)

SpecSched == InitSched /\ [][NextSched]_vars

----------------------------------------------------------------------------
(* The scheduling engine used by one agent at a time *)

\* cancel and the slot query are issued while no schedule call is in flight;
\* a reschedule may also fall between the steps of a schedule call
NextEngine ==
    \/ \E u \in Users, s \in Starts, d \in Durations :
            ScheduleBegin("c1", u, s, d)
    \/ \E p \in Callers : ScheduleCheckOverlap(p)
    \/ \E p \in Callers : ScheduleCheckDuplicate(p)
    \/ \E p \in Callers : ScheduleCreate(p)
    \/ \E u \in Users, s \in Starts, d \in Durations : Reschedule(u, s, d)
    \/ /\ InFlight = {}
       /\ \E u \in Users : Cancel(u)
    \/ /\ InFlight = {}
       /\ \E r \in DateRanges : GetAvailableSlots(r[1], r[2])
    \/ \E t \in ClockValues : Tick(t)

SpecEngine == InitSched /\ [][NextEngine]_vars

----------------------------------------------------------------------------
(* Properties of concurrent schedule calls, stated over SpecSched *)

\* the confirmed appointments that cover the instant t
CoveringAt(t) ==
    {j \in DOMAIN appts :
        appts[j].status = "confirmed" /\ appts[j].start <= t /\ t < appts[j].end}

\* C1: no instant is covered by more than max_concurrent confirmed
\* appointments.  Coverage only rises at the start of an appointment, so it is
\* enough to look at the starts of the confirmed appointments.
C1_CapacityInvariant ==
    \A i \in DOMAIN appts :
        appts[i].status = "confirmed"
            => Cardinality(CoveringAt(appts[i].start)) <= max_concurrent

\* caller p returns in this step
Returns(p) == call[p].pc # "idle" /\ call'[p].pc = "idle"

\* C2: of two schedule calls that run concurrently for the same interval
\* while exactly one capacity slot is left, exactly one returns an Appointment
\* and the other returns CapacityExceeded.  When the second of the two returns,
\* call[p].race holds what the first one returned.
C2_ExactlyOneSucceeds ==
    [][\A p \in Callers :
        (Returns(p) /\ call[p].race \notin {"none", "racing"})
            => {call[p].race, reply'.result} = {"Appointment", "CapacityExceeded"}
      ]_vars

\* the number of confirmed appointments that overlap [s,e)
ConfirmedOverlapping(s, e) ==
    Cardinality({i \in DOMAIN appts :
        appts[i].status = "confirmed" /\ appts[i].start < e /\ s < appts[i].end})

\* caller p makes its overlap check in this step
ChecksOverlap(p) == call[p].pc = "overlap" /\ call'[p].pc # "overlap"

\* the caller has a confirmed appointment of its own for the same interval
\* that was created within the look-back window
OwnRecentBooking(p) ==
    \E i \in DOMAIN appts :
        /\ appts[i].status = "confirmed"
        /\ appts[i].user = call[p].user
        /\ appts[i].start = call[p].start /\ appts[i].end = call[p].end
        /\ now - appts[i].created <= LookBackMinutes

\* schedule returns CapacityExceeded, creating nothing, exactly when the
\* confirmed appointments overlapping the interval number max_concurrent or more
RejectsIffFull(p) ==
    /\ ChecksOverlap(p) =>
          /\ appts' = appts
          /\ (reply' = Returned("schedule", "CapacityExceeded"))
                <=> (ConfirmedOverlapping(call[p].start, call[p].end)
                        >= max_concurrent)
    /\ (Returns(p) /\ reply'.result = "CapacityExceeded") => ChecksOverlap(p)

C6_NoDuplicateBooking ==
    \A i, j \in DOMAIN appts :
        (/\ i < j
         /\ appts[i].status = "confirmed" /\ appts[j].status = "confirmed"
         /\ appts[i].user = appts[j].user
         /\ appts[i].start = appts[j].start /\ appts[i].end = appts[j].end)
            => appts[j].created - appts[i].created > LookBackMinutes

----------------------------------------------------------------------------
(* Properties of reschedule, cancel and available slots, stated over SpecEngine *)

\* the upcoming confirmed appointments of user u
Mine(u) ==
    {i \in DOMAIN appts :
        appts[i].user = u /\ appts[i].status = "confirmed" /\ appts[i].start >= now}

\* the one created last
Latest(S) == CHOOSE i \in S : \A j \in S : j <= i

\* the confirmed appointments other than i that overlap [s,e)
OthersOverlapping(i, s, e) ==
    Cardinality({j \in DOMAIN appts \ {i} :
        appts[j].status = "confirmed" /\ appts[j].start < e /\ s < appts[j].end})

\* what a reschedule(u, s, d) step must do to the appointment it moves
MovesOrRejects(u, s, d) ==
    Mine(u) # {} =>
        LET i == Latest(Mine(u))
        IN  IF OthersOverlapping(i, s, s + d) >= max_concurrent
            THEN /\ reply' = Returned("reschedule", "CapacityExceeded")
                 /\ appts'[i].start = appts[i].start
                 /\ appts'[i].end = appts[i].end
            ELSE /\ reply' = Returned("reschedule", "Appointment")
                 /\ appts'[i].start = s
                 /\ appts'[i].end = s + d
                 /\ appts'[i].status = "confirmed"

\* C8: reschedule counts the confirmed appointments overlapping the new
\* interval without the one being moved, returns CapacityExceeded exactly when
\* that count reaches max_concurrent, leaving start and end as they were, and
\* otherwise sets start and end in one step: the calendar never gains a copy,
\* and no appointment shows an end that does not belong to its start.
C8_RescheduleAtomic ==
    [][/\ reply'.op = "reschedule" =>
            \A u \in Users, s \in Starts, d \in Durations :
                Reschedule(u, s, d) =>
                    MovesOrRejects(u, s, d) /\ Len(appts') = Len(appts)
       /\ \A i \in DOMAIN appts' :
            appts'[i].end - appts'[i].start \in Durations
      ]_vars

\* a move was rejected for capacity while the appointment to move itself
\* overlaps the requested interval
C8_Witness ==
    /\ reply = Returned("reschedule", "CapacityExceeded")
    /\ \E u \in Users :
          /\ Mine(u) # {}
          /\ \E s \in Starts :
                /\ OthersOverlapping(Latest(Mine(u)), s, s + HM(1, 0)) >= max_concurrent
                /\ appts[Latest(Mine(u))].start < s + HM(1, 0)
                /\ s < appts[Latest(Mine(u))].end

\* what a cancel or reschedule step of user u may touch
TouchesOnlyLatest(u) ==
    /\ Len(appts') = Len(appts)
    /\ IF Mine(u) = {}
       THEN reply'.result = "NotFound" /\ appts' = appts
       ELSE /\ reply'.result # "NotFound"
            /\ \A j \in DOMAIN appts :
                  \/ appts'[j] = appts[j]
                  \/ j = Latest(Mine(u)) /\ appts'[j].user = appts[j].user

\* C9: cancel and reschedule change nothing but the calling user's most recent
\* upcoming confirmed appointment, and with none they return NotFound and
\* leave the calendar as it is.
C9_OnlyOwnLatest ==
    [][reply'.op \in {"cancel", "reschedule"} =>
          \A u \in Users :
              (Cancel(u) \/ \E s \in Starts, d \in Durations : Reschedule(u, s, d))
                  => TouchesOnlyLatest(u)
      ]_vars

\* a cancel went through while the same user keeps an older upcoming
\* appointment and another user has one too
C9_Witness ==
    /\ reply = Returned("cancel", "Ok")
    /\ \E i, j, k \in DOMAIN appts :
          /\ j < i
          /\ appts[i].status = "canceled"
          /\ appts[j].user = appts[i].user
          /\ appts[j].status = "confirmed" /\ appts[j].start >= now
          /\ appts[k].user # appts[i].user
          /\ appts[k].status = "confirmed"

\* the points of the slot grid in [a,b)
GridPoints(a, b) ==
    {a + k * SlotMinutes : k \in 0 .. ((b - a - 1) \div SlotMinutes)}

\* window w lies inside the business hours of a day that is not closed
InsideBusinessHours(w) ==
    \E d \in Days :
        /\ ~BusinessHours(d).closed
        /\ d * DayMinutes + BusinessHours(d).open <= w.start
        /\ w.start < w.end
        /\ w.end <= d * DayMinutes + BusinessHours(d).close

\* no instant of window w is covered by max_concurrent confirmed appointments
\* (appointments start and end on the slot grid)
NeverSaturated(w) ==
    \A t \in GridPoints(w.start, w.end) :
        Cardinality(CoveringAt(t)) < max_concurrent

----------------------------------------------------------------------------
(* Properties of the deduplication store and the pipeline, over SpecPipeline *)

\* worker w makes its claim in this step, and what the claim returns
Claims(w) ==
    worker[w].pc = "handle" /\ worker[w].kind = "message" /\ worker'[w].pc # "handle"

ClaimsTrue(w) == Claims(w) /\ worker'[w].pc = "generate"

ClaimsFalse(w) == Claims(w) /\ worker'[w].pc = "idle"

\* the record of the id is older than the time bound of the memory cache
Outdated(id) == dedup_mode = "memory" /\ now - processed[id] > TtlMinutes

\* C3 as stated: of all the claims of a message id, the first returns true and
\* every other one returns false; in durable mode a record is never
\* overwritten or removed
C3_OneTrueEver ==
    [][/\ \A w \in Callers :
            Claims(w) => (ClaimsTrue(w) <=> trues[worker[w].id] = 0)
       /\ \A id \in MsgIds :
            (dedup_mode = "durable" /\ processed[id] # NoRecord)
                => processed'[id] = processed[id]
      ]_vars

\* C3, amended: in durable mode the first claim of a message id returns true
\* and every other one, concurrent or later, returns false, and a record is
\* never overwritten or removed; in the memory fallback a later claim returns
\* true again exactly when the record is older than the time bound.
C3_OneTrueWhileRecorded ==
    [][/\ \A w \in Callers :
            Claims(w) =>
                (ClaimsTrue(w) <=>
                    (trues[worker[w].id] = 0 \/ Outdated(worker[w].id)))
       /\ \A id \in MsgIds :
            (dedup_mode = "durable" /\ processed[id] # NoRecord)
                => processed'[id] = processed[id]
      ]_vars

\* in durable mode a claim has just returned false while the delivery that
\* claimed the id first is still being processed
C3_Witness ==
    /\ dedup_mode = "durable"
    /\ reply = Returned("claim", "Duplicate")
    /\ \E id \in MsgIds, w \in Callers :
          /\ \A j \in MsgIds : trues[j] >= 1 <=> j = id
          /\ worker[w].id = id
          /\ worker[w].pc \notin {"idle", "handle"}

\* the user turns stored for a message id, and the replies sent for it
UserTurns(id) ==
    Cardinality({k \in DOMAIN thread[Sender[id]] :
        thread[Sender[id]][k] = [role |-> "user", id |-> id]})

Replies(id) == Cardinality({k \in DOMAIN outbox : outbox[k].id = id})

\* the requests for id that have claimed it and are at one of the steps in pcs
Serving(id, pcs) ==
    Cardinality({w \in Callers : worker[w].id = id /\ worker[w].pc \in pcs})

OneTurnPerClaim(id) ==
    /\ UserTurns(id) + Serving(id, {"generate", "tools", "store_user"}) = trues[id]
    /\ Replies(id)
         + Serving(id, {"generate", "tools", "store_user", "store_assistant", "send"})
         = trues[id]
    /\ (dedup_mode = "durable" => trues[id] <= 1)

C7_NoFalseDuplicate ==
    [][\A w \in Callers :
          /\ ClaimsFalse(w) => trues[worker[w].id] >= 1
          /\ (ClaimsTrue(w) /\ trues[worker[w].id] >= 1) =>
                /\ dedup_mode = "memory"
                /\ now - processed[worker[w].id] > TtlMinutes
      ]_vars

\* in memory mode an id has been claimed as new for the second time
C7_Witness ==
    /\ dedup_mode = "memory"
    /\ reply = Returned("claim", "New")
    /\ \E id \in MsgIds : trues[id] = 2


----------------------------------------------------------------------------
(* Conversation memory: the conversations table of all tenants *)

\* "conversation memory (last 10 messages)"
HistoryLimit == 10

\* rows the conversations table may hold in a behaviour of the model
MaxRows == 11

\* the appends made: who writes, to which tenant, in which role
HistoryAppends ==
    {<<"b1", "u1", "user">>, <<"b2", "u1", "user">>, <<"b1", "u2", "assistant">>}

\* store_conversation_message: the business_id of the row is the default
\* business, whatever tenant the turn belongs to
store_conversation_message(wa_id, message, role) ==
    Append(conversations,
           [business_id |-> DefaultBusiness, whatsapp_id |-> wa_id,
            message |-> message, role |-> role])

\* the last n elements of a sequence, oldest first
LastN(q, n) ==
    IF Len(q) <= n THEN q ELSE SubSeq(q, Len(q) - n + 1, Len(q))

\* the rows of one user in one tenant, in insertion order
ThreadRows(wa_id, business_id) ==
    SelectSeq(conversations,
              LAMBDA r : r.whatsapp_id = wa_id /\ r.business_id = business_id)

\* get_conversation_history: the last HistoryLimit messages of the user in
\* the tenant, oldest first
get_conversation_history(wa_id, business_id) ==
    LastN(ThreadRows(wa_id, business_id), HistoryLimit)

\* add_to_conversation_history(wa_id, role, message, business_id) of a turn of
\* tenant business_id; the message stored is the serial number of the row
AppendToHistory(business_id, wa_id, role) ==
    /\ Len(conversations) < MaxRows
    /\ conversations' =
          store_conversation_message(wa_id, Len(conversations) + 1, role)
    /\ UNCHANGED <<appts, now, max_concurrent, call, reply, probe>>
    /\ UNCHANGED pipe_vars
    /\ UNCHANGED console_vars
    /\ UNCHANGED tenant_vars

InitMemory ==
    /\ appts = <<>>
    /\ now = 0
    /\ max_concurrent = 2
    /\ call = [p \in Callers |-> IdleCall]
    /\ reply = NoReply
    /\ dedup_mode = "durable"
    /\ NoConsole
    /\ NoTenants
    /\ NoPipeline

NextMemory ==
    \E a \in HistoryAppends : AppendToHistory(a[1], a[2], a[3])

SpecMemory == InitMemory /\ [][NextMemory]_vars

----------------------------------------------------------------------------
(* Properties of the conversation memory, stated over SpecMemory *)

\* the messages of a sequence of rows
Messages(rows) == [k \in DOMAIN rows |-> rows[k].message]

\* C11: recent(tenant, user, N) never returns more than N messages, and after
\* an append for (tenant, user) it returns what it returned before, followed by
\* the appended message, cut to the last N: the min(N, number appended) most
\* recent messages, oldest first, the oldest one evicted, contents unchanged.
C11_RecentIsLastN ==
    [][\A a \in HistoryAppends :
        AppendToHistory(a[1], a[2], a[3]) =>
            LET before == Messages(get_conversation_history(a[2], a[1]))
                after == Messages(get_conversation_history(a[2], a[1]))'
            IN  /\ Len(after) <= HistoryLimit
                /\ after = LastN(Append(before, Len(conversations) + 1),
                                 HistoryLimit)
      ]_vars

\* C12: an append for (t1, u1) changes what recent returns for no other pair
\* (t2, u2)
C12_ThreadsIsolated ==
    [][\A a \in HistoryAppends :
        AppendToHistory(a[1], a[2], a[3]) =>
            \A b \in Businesses, u \in Users :
                <<b, u>> # <<a[1], a[2]>> =>
                    get_conversation_history(u, b)'
                        = get_conversation_history(u, b)
      ]_vars


----------------------------------------------------------------------------
(* Properties of the agent's turns, stated over SpecTurns *)

\* the most invocations of the model a turn is meant to make
IterationCap == 5

\* worker w is inside a turn: between its history read and its dispatch
InTurn(w) ==
    worker[w].pc \in {"generate", "tools", "store_user", "store_assistant", "send"}

\* worker w dispatches its reply in this step
Sends(w) == worker[w].pc = "send" /\ worker'[w].pc = "idle"

\* the turn of worker w has used up its invocations of the model and the last
\* response still asks for tool calls
Exhausted(w) == InTurn(w) /\ worker[w].answer = "tool_calls"

\* the replies sent for message id whose body is the fallback message
Fallbacks(id) ==
    Cardinality({k \in DOMAIN outbox :
        outbox[k].id = id /\ outbox[k].body = "fallback"})

\* C13: a turn invokes the model at most IterationCap times, and a turn whose
\* last allowed invocation still asks for tool calls is answered with the
\* fallback message.
C13_ExhaustedTurnSendsFallback ==
    [][\A w \in Callers :
          /\ worker'[w].llm_calls <= IterationCap
          /\ (Sends(w) /\ Exhausted(w))
                => outbox'[Len(outbox')] = [id |-> worker[w].id, body |-> "fallback"]
      ]_vars

\* the tool call of worker w fails in this step
ToolFails(w) ==
    /\ worker[w].pc = "tools"
    /\ Returns(w)
    /\ reply'.result \in {"Error", "CapacityExceeded"}

\* C14: when a tool call fails the turn goes on: the worker stays in its tool
\* loop with the remaining tool calls of the response still to run, and the
\* failed call has changed no appointment.
C14_FailedToolCallKeepsTurn ==
    [][\A w \in Callers :
          ToolFails(w) =>
              /\ appts' = appts
              /\ worker'[w].pc = "tools"
              /\ worker'[w].todo = worker[w].todo
      ]_vars

\* the user message id and, after it, the assistant reply to it are in the
\* thread of the sender
TurnStored(id) ==
    \E i, j \in DOMAIN thread[Sender[id]] :
        /\ i < j
        /\ thread[Sender[id]][i] = [role |-> "user", id |-> id]
        /\ thread[Sender[id]][j] = [role |-> "assistant", id |-> id]

C16_ExhaustedTurnEndsOnce ==
    [][\A w \in Callers :
          Exhausted(w) =>
              /\ call'[w].pc = "idle"
              /\ processed'[worker[w].id] # NoRecord
              /\ Sends(w) => Fallbacks(worker[w].id)' = 1
      ]_vars

\* C17: no two workers are inside turns of the same user at the same time
C17_TurnsSerialized ==
    \A w1, w2 \in Callers :
        (w1 # w2 /\ InTurn(w1) /\ InTurn(w2))
            => Sender[worker[w1].id] # Sender[worker[w2].id]

\* worker w takes a step of the request it is serving
Steps(w) ==
    /\ worker[w].pc # "idle"
    /\ worker'[w] # worker[w] \/ call'[w].pc # call[w].pc

\* the delivery worker w is serving is to be dropped: a status update, or
\* addressed to a channel no tenant is found for
Dropped(w) ==
    \/ worker[w].kind = "status"
    \/ get_business_context(worker[w].channel) = NoBusiness

\* C18: a delivery that fails the signature check changes neither the
\* deduplication store, nor the threads, the calendar or the outbox; no step
\* taken for a status update or for a delivery to an unknown channel appends to
\* a thread, starts or runs a scheduling operation, or dispatches a reply.
C18_DroppedDeliveriesDoNothing ==
    [][/\ reply' = Returned("webhook", "Forbidden")
            => UNCHANGED <<processed, thread, appts, call, outbox, worker>>
       /\ \A w \in Callers :
            (Steps(w) /\ Dropped(w))
                => UNCHANGED <<thread, appts, call, outbox>>
      ]_vars


----------------------------------------------------------------------------
(* The overlap relation on its own *)

\* the interval ends tried: 10:00, 10:30, .. , 12:00
OverlapTimes == {HM(10, 0), HM(10, 30), HM(11, 0), HM(11, 30), HM(12, 0)}

\* the intervals [a,b) over them
OverlapIntervals == {i \in OverlapTimes \X OverlapTimes : i[1] < i[2]}

\* the calendar holds one confirmed appointment [a,b); [c,d) is asked about
InitOverlap ==
    /\ \E i, j \in OverlapIntervals :
          /\ appts = <<[user |-> "u1", start |-> i[1], end |-> i[2],
                        status |-> "confirmed", created |-> 0]>>
          /\ probe = [fn |-> "overlaps", in |-> j, out |-> <<>>]
    /\ now = 0
    /\ max_concurrent = 2
    /\ call = [p \in Callers |-> IdleCall]
    /\ reply = NoReply
    /\ dedup_mode = "durable"
    /\ NoConsole
    /\ NoTenants
    /\ conversations = <<>>
    /\ processed = [id \in MsgIds |-> NoRecord]
    /\ trues = [id \in MsgIds |-> 0]
    /\ worker = [w \in Callers |-> IdleWorker]
    /\ thread = [u \in Users |-> <<>>]
    /\ outbox = <<>>
    /\ deliveries = 0

\* the overlap relation is applied to the appointment and the interval, and
\* the capacity count is taken for the interval
CountOverlapping ==
    /\ probe.fn = "overlaps"
    /\ probe.out = <<>>
    /\ probe' = [probe EXCEPT !.out =
                    <<Overlaps(appts[1].start, appts[1].end, probe.in[1], probe.in[2]),
                      Overlaps(probe.in[1], probe.in[2], appts[1].start, appts[1].end),
                      check_overlapping_events(probe.in[1], probe.in[2]).event_count>>]
    /\ UNCHANGED <<appts, now, max_concurrent, call, reply, conversations>>
    /\ UNCHANGED pipe_vars
    /\ UNCHANGED console_vars
    /\ UNCHANGED tenant_vars

NextOverlap == CountOverlapping

SpecOverlap == InitOverlap /\ [][NextOverlap]_vars

----------------------------------------------------------------------------
(* Encryption of stored credentials (admin console): encrypt and decrypt *)

IV_LENGTH == 16
AUTH_TAG_LENGTH == 16

\* longest string encrypted
MaxStrLen == 2

\* a string is a sequence of UTF-16 code units: "a", ":", a high surrogate
\* (U+D800), a low surrogate (U+DC00) and the replacement character U+FFFD
CodeUnits == {97, 58, 55296, 56320, 65533}

ReplacementChar == 65533

Strings == UNION {[1 .. n -> CodeUnits] : n \in 0 .. MaxStrLen}

\* the values crypto.randomBytes(IV_LENGTH) returns here: all bytes 0x00, all
\* 0x3a (":") and all 0xff
Nonces == {[k \in 1 .. IV_LENGTH |-> b] : b \in {0, 58, 255}}

IsHighSurrogate(u) == 55296 <= u /\ u <= 56319
IsLowSurrogate(u) == 56320 <= u /\ u <= 57343

RECURSIVE Utf8EncodeFrom(_, _)
\* the "utf8" input encoding of cipher.update: the bytes of the code units of
\* s from position i on; a surrogate without its partner becomes U+FFFD
Utf8EncodeFrom(s, i) ==
    IF i > Len(s)
    THEN <<>>
    ELSE LET u == s[i]
         IN  IF u < 128
             THEN <<u>> \o Utf8EncodeFrom(s, i + 1)
             ELSE IF u < 2048
             THEN <<192 + (u \div 64), 128 + (u % 64)>> \o Utf8EncodeFrom(s, i + 1)
             ELSE IF IsHighSurrogate(u) /\ i < Len(s) /\ IsLowSurrogate(s[i + 1])
             THEN LET cp == 65536 + (u - 55296) * 1024 + (s[i + 1] - 56320)
                  IN  <<240 + (cp \div 262144), 128 + ((cp \div 4096) % 64),
                        128 + ((cp \div 64) % 64), 128 + (cp % 64)>>
                          \o Utf8EncodeFrom(s, i + 2)
             ELSE IF IsHighSurrogate(u) \/ IsLowSurrogate(u)
             THEN <<239, 191, 189>> \o Utf8EncodeFrom(s, i + 1)
             ELSE <<224 + (u \div 4096), 128 + ((u \div 64) % 64), 128 + (u % 64)>>
                      \o Utf8EncodeFrom(s, i + 1)

Utf8Encode(s) == Utf8EncodeFrom(s, 1)

\* byte k of b is a continuation byte
IsContinuation(b, k) == k <= Len(b) /\ 128 <= b[k] /\ b[k] < 192

RECURSIVE Utf8DecodeFrom(_, _)
\* the "utf8" output encoding of decipher.update: the code units of the bytes
\* of b from position i on; a byte that starts no sequence becomes U+FFFD
Utf8DecodeFrom(b, i) ==
    IF i > Len(b)
    THEN <<>>
    ELSE LET x == b[i]
         IN  IF x < 128
             THEN <<x>> \o Utf8DecodeFrom(b, i + 1)
             ELSE IF 194 <= x /\ x < 224 /\ IsContinuation(b, i + 1)
             THEN <<(x - 192) * 64 + (b[i + 1] - 128)>> \o Utf8DecodeFrom(b, i + 2)
             ELSE IF 224 <= x /\ x < 240 /\ IsContinuation(b, i + 1)
                        /\ IsContinuation(b, i + 2)
             THEN <<(x - 224) * 4096 + (b[i + 1] - 128) * 64 + (b[i + 2] - 128)>>
                      \o Utf8DecodeFrom(b, i + 3)
             ELSE IF 240 <= x /\ x < 245 /\ IsContinuation(b, i + 1)
                        /\ IsContinuation(b, i + 2) /\ IsContinuation(b, i + 3)
             THEN LET cp == (x - 240) * 262144 + (b[i + 1] - 128) * 4096
                              + (b[i + 2] - 128) * 64 + (b[i + 3] - 128)
                  IN  <<55296 + ((cp - 65536) \div 1024),
                        56320 + ((cp - 65536) % 1024)>>
                          \o Utf8DecodeFrom(b, i + 4)
             ELSE <<ReplacementChar>> \o Utf8DecodeFrom(b, i + 1)

Utf8Decode(b) == Utf8DecodeFrom(b, 1)

RECURSIVE Xor(_, _, _)
\* the exclusive or of the low n bits of a and b
Xor(a, b, n) ==
    IF n = 0
    THEN 0
    ELSE (((a % 2) + (b % 2)) % 2) + 2 * Xor(a \div 2, b \div 2, n - 1)

\* byte k of the key stream the cipher derives from the key and the iv
Keystream(iv, k) == (iv[1] * 31 + iv[IV_LENGTH] + 17 * k + 101) % 256

\* aes-256-gcm in counter mode: each byte is xored with the key stream
GcmCrypt(iv, bytes) == [k \in DOMAIN bytes |-> Xor(bytes[k], Keystream(iv, k), 8)]

RECURSIVE SumBytes(_)
SumBytes(b) == IF b = <<>> THEN 0 ELSE b[1] + SumBytes(Tail(b))

\* cipher.getAuthTag(): a tag over the iv and the ciphertext
getAuthTag(iv, ct) ==
    [k \in 1 .. AUTH_TAG_LENGTH |-> (SumBytes(ct) + Len(ct) + iv[k] + 7 * k) % 256]

HexDigits ==
    <<"0", "1", "2", "3", "4", "5", "6", "7", "8", "9", "a", "b", "c", "d", "e", "f">>

IsHexDigit(c) == \E v \in 1 .. 16 : HexDigits[v] = c

HexValue(c) == (CHOOSE v \in 1 .. 16 : HexDigits[v] = c) - 1

RECURSIVE ToHex(_)
\* buffer.toString("hex")
ToHex(b) ==
    IF b = <<>>
    THEN <<>>
    ELSE <<HexDigits[(b[1] \div 16) + 1], HexDigits[(b[1] % 16) + 1]>>
             \o ToHex(Tail(b))

RECURSIVE FromHex(_)
\* Buffer.from(text, "hex"): pairs of hex digits, up to the first that is none
FromHex(h) ==
    IF Len(h) < 2 \/ ~IsHexDigit(h[1]) \/ ~IsHexDigit(h[2])
    THEN <<>>
    ELSE <<HexValue(h[1]) * 16 + HexValue(h[2])>> \o FromHex(SubSeq(h, 3, Len(h)))

RECURSIVE Split(_, _)
\* text.split(sep)
Split(text, sep) ==
    IF \A k \in DOMAIN text : text[k] # sep
    THEN <<text>>
    ELSE LET k == CHOOSE i \in DOMAIN text :
                      text[i] = sep /\ \A j \in 1 .. i - 1 : text[j] # sep
         IN  <<SubSeq(text, 1, k - 1)>> \o Split(SubSeq(text, k + 1, Len(text)), sep)

\* encrypt(text) with the iv drawn: `${iv hex}:${authTag hex}:${encrypted}`
encrypt(text, iv) ==
    LET encrypted == GcmCrypt(iv, Utf8Encode(text))
        authTag == getAuthTag(iv, encrypted)
    IN  ToHex(iv) \o <<":">> \o ToHex(authTag) \o <<":">> \o ToHex(encrypted)

\* a decrypt that takes the auth tag for the iv
decrypt_swapped(encryptedText) ==
    LET parts == Split(encryptedText, ":")
    IN  IF Len(parts) # 3
        THEN [error |-> "Invalid encrypted text format", text |-> <<>>]
        ELSE LET iv == FromHex(parts[2])
                 authTag == FromHex(parts[2])
                 encrypted == FromHex(parts[3])
             IN  IF Len(iv) # IV_LENGTH \/ getAuthTag(iv, encrypted) # authTag
                 THEN [error |-> "unable to authenticate data", text |-> <<>>]
                 ELSE [error |-> "none",
                       text |-> Utf8Decode(GcmCrypt(iv, encrypted))]

\* decrypt(encryptedText): the text, or the error thrown
decrypt(encryptedText) ==
    LET parts == Split(encryptedText, ":")
    IN  IF Len(parts) # 3
        THEN [error |-> "Invalid encrypted text format", text |-> <<>>]
        ELSE LET iv == FromHex(parts[1])
                 authTag == FromHex(parts[2])
                 encrypted == FromHex(parts[3])
             IN  IF Len(iv) # IV_LENGTH \/ getAuthTag(iv, encrypted) # authTag
                 THEN [error |-> "unable to authenticate data", text |-> <<>>]
                 ELSE [error |-> "none",
                       text |-> Utf8Decode(GcmCrypt(iv, encrypted))]

NoCipher == [cipher |-> <<>>, error |-> "none", text |-> <<>>]

InitCrypto ==
    /\ \E text \in Strings : probe = [fn |-> "encrypt", in |-> text, out |-> NoCipher]
    /\ appts = <<>>
    /\ now = 0
    /\ max_concurrent = 2
    /\ call = [p \in Callers |-> IdleCall]
    /\ reply = NoReply
    /\ dedup_mode = "durable"
    /\ NoConsole
    /\ NoTenants
    /\ conversations = <<>>
    /\ processed = [id \in MsgIds |-> NoRecord]
    /\ trues = [id \in MsgIds |-> 0]
    /\ worker = [w \in Callers |-> IdleWorker]
    /\ thread = [u \in Users |-> <<>>]
    /\ outbox = <<>>
    /\ deliveries = 0

\* encrypt(probe.in), crypto.randomBytes returning iv
Encrypt(iv) ==
    /\ probe.fn = "encrypt"
    /\ probe' = [probe EXCEPT !.fn = "decrypt",
                              !.out = [NoCipher EXCEPT !.cipher = encrypt(probe.in, iv)]]
    /\ UNCHANGED <<appts, now, max_concurrent, call, reply, conversations>>
    /\ UNCHANGED pipe_vars
    /\ UNCHANGED console_vars
    /\ UNCHANGED tenant_vars

\* decrypt of what encrypt returned
Decrypt ==
    /\ probe.fn = "decrypt"
    /\ LET r == decrypt(probe.out.cipher)
       IN  probe' = [probe EXCEPT !.fn = "done",
                                  !.out = [probe.out EXCEPT !.error = r.error,
                                                            !.text = r.text]]
    /\ UNCHANGED <<appts, now, max_concurrent, call, reply, conversations>>
    /\ UNCHANGED pipe_vars
    /\ UNCHANGED console_vars
    /\ UNCHANGED tenant_vars

NextCrypto ==
    \/ \E iv \in Nonces : Encrypt(iv)
    \/ Decrypt

SpecCrypto == InitCrypto /\ [][NextCrypto]_vars

\* no surrogate of s is without its partner
WellFormed(s) ==
    \A k \in DOMAIN s :
        /\ IsHighSurrogate(s[k]) => (k < Len(s) /\ IsLowSurrogate(s[k + 1]))
        /\ IsLowSurrogate(s[k]) => (k > 1 /\ IsHighSurrogate(s[k - 1]))

\* s with every surrogate that is without its partner replaced by U+FFFD
Scrubbed(s) ==
    [k \in DOMAIN s |->
        IF \/ IsHighSurrogate(s[k]) /\ ~(k < Len(s) /\ IsLowSurrogate(s[k + 1]))
           \/ IsLowSurrogate(s[k]) /\ ~(k > 1 /\ IsHighSurrogate(s[k - 1]))
        THEN ReplacementChar
        ELSE s[k]]

\* C20 as stated: for every string s and every nonce, decrypt(encrypt(s))
\* returns s
C20_RoundTripAnyString ==
    probe.fn = "done" => (probe.out.error = "none" /\ probe.out.text = probe.in)

\* C20, amended: for every nonce, decrypt(encrypt(s)) throws nothing and
\* returns s with every unpaired surrogate replaced by U+FFFD; so it returns s
\* for every well-formed string s, the empty string and strings that contain
\* ":" included.
C20_RoundTripWellFormed ==
    probe.fn = "done" =>
        /\ probe.out.error = "none"
        /\ probe.out.text = Scrubbed(probe.in)
        /\ WellFormed(probe.in) => probe.out.text = probe.in

\* ":a" has been encrypted with the nonce whose bytes are all 0x3a and
\* decrypted again
C20_Witness ==
    /\ probe.fn = "done"
    /\ probe.in = <<58, 97>>
    /\ SubSeq(probe.out.cipher, 1, 2) = <<"3", "a">>
    /\ probe.out.text = <<58, 97>>

----------------------------------------------------------------------------
(* Admin console: sessions and permissions *)

\* what the admin console never touches
bot_vars == <<appts, now, max_concurrent, call, reply, pipe_vars, ext_vars, tenant_vars>>

\* an isSuperAdmin that takes every signed-in user for a super admin
isSuperAdmin_signed_in(session) == session.role # "none"

\* isSuperAdmin(session)
isSuperAdmin(session) == session.role = "super_admin"

\* canAccessBusiness(session, businessId)
canAccessBusiness(session, businessId) ==
    IF session = NoSession
    THEN FALSE
    ELSE IF isSuperAdmin(session)
         THEN TRUE
         ELSE \E b \in session.businesses : b.businessId = businessId

\* a canEditBusiness that asks for any role in the business
canEditBusiness_any_role(session, businessId) ==
    IF session = NoSession
    THEN FALSE
    ELSE IF isSuperAdmin(session)
         THEN TRUE
         ELSE \E b \in session.businesses : b.businessId = businessId

\* canEditBusiness(session, businessId)
canEditBusiness(session, businessId) ==
    IF session = NoSession
    THEN FALSE
    ELSE IF isSuperAdmin(session)
         THEN TRUE
         ELSE \E b \in session.businesses :
                 b.businessId = businessId /\ b.role = "admin"

\* the user_businesses rows of a user, as authorize maps them
UserBusinesses(a) ==
    {[businessId |-> b, role |-> user_businesses[a, b]] :
        b \in {x \in Businesses : user_businesses[a, x] # "none"}}

\* what the jwt and session callbacks put in the session of a user who signed in
SessionOf(a) ==
    [id |-> a,
     role |-> IF users[a].role = "super_admin" THEN "super_admin" ELSE "",
     businesses |-> UserBusinesses(a)]

Responded(action, caller, business, success, error) ==
    [action |-> action, caller |-> caller, business |-> business,
     success |-> success, error |-> error]

\* authorize(credentials) with the right password, then the jwt callback: the
\* browser of account a holds a session from now on; a throw leaves it as it was
authorize(a) ==
    /\ IF users[a] = NoUser
       THEN /\ response' = Responded("authorize", a, "none", FALSE,
                                     "Invalid email or password")
            /\ UNCHANGED sessions
       ELSE IF users[a].role # "super_admin" /\ UserBusinesses(a) = {}
       THEN /\ response' = Responded("authorize", a, "none", FALSE,
                                     "Access denied. No business access configured.")
            /\ UNCHANGED sessions
       ELSE /\ sessions' = [sessions EXCEPT ![a] = SessionOf(a)]
            /\ response' = Responded("authorize", a, "none", TRUE, "none")
    /\ UNCHANGED <<businesses, users, user_businesses, whatsapp_numbers, requests>>
    /\ UNCHANGED bot_vars

----------------------------------------------------------------------------
(* Admin console: business settings and the Google Calendar credentials *)

\* the key google_calendar is absent from the settings JSON
NoCalendar == [is_configured |-> FALSE]

\* settings: {} of a business just created
EmptySettings == [phone |-> "undefined", google_calendar |-> NoCalendar]

\* process.env.GOOGLE_OAUTH_CLIENT_SECRET: "aa"
GOOGLE_CLIENT_SECRET == <<97, 97>>

\* the credentials the OAuth callback hands over: refresh token "a", access
\* token "a:"
Credentials == {[refresh_token |-> <<97>>, access_token |-> <<97, 58>>]}

\* the values crypto.randomBytes returns while credentials are saved
SaveNonces == {n \in Nonces : n[1] = 58}

\* the edits of the settings form: a field left out is "undefined"
Patches == {[name |-> "undefined", phone |-> "p2"], [name |-> "n2", phone |-> "undefined"]}

RowExists(b) == businesses[b] # NoBusinessRow /\ businesses[b] # DeletedBusinessRow

Begun(r, pc, a, b, arg) ==
    requests' = [requests EXCEPT ![r] = [pc |-> pc, caller |-> a, business |-> b,
                                         read |-> businesses[b].settings,
                                         arg |-> arg]]

\* updateBusinessSettings up to prisma.businesses.findUnique
updateBusinessSettings_begin(r, a, b, settings) ==
    /\ requests[r] = IdleRequest
    /\ IF sessions[a] = NoSession
       THEN /\ response' = Responded("updateBusinessSettings", a, b, FALSE, "Unauthorized")
            /\ UNCHANGED requests
       ELSE IF ~canEditBusiness(sessions[a], b)
       THEN /\ response' = Responded("updateBusinessSettings", a, b, FALSE,
                                     "You don't have permission to edit this business")
            /\ UNCHANGED requests
       ELSE IF ~RowExists(b)
       THEN /\ response' = Responded("updateBusinessSettings", a, b, FALSE,
                                     "Failed to update settings")
            /\ UNCHANGED requests
       ELSE /\ Begun(r, "updateBusinessSettings", a, b, settings)
            /\ response' = NoResponse
    /\ UNCHANGED <<businesses, users, user_businesses, whatsapp_numbers, sessions>>
    /\ UNCHANGED bot_vars

\* updateBusinessSettings from prisma.businesses.update on
updateBusinessSettings_commit(r) ==
    LET q == requests[r]
        b == q.business
        currentSettings == q.read
        newSettings ==
            [currentSettings EXCEPT
                !.phone = IF q.arg.phone # "undefined" THEN q.arg.phone ELSE @]
    IN  /\ q.pc = "updateBusinessSettings"
        /\ requests' = [requests EXCEPT ![r] = IdleRequest]
        /\ IF ~RowExists(b)
           THEN /\ response' = Responded(q.pc, q.caller, b, FALSE, "Failed to update settings")
                /\ UNCHANGED businesses
           ELSE /\ businesses' =
                       [businesses EXCEPT
                           ![b] = [name |-> IF q.arg.name # "undefined"
                                            THEN q.arg.name
                                            ELSE businesses[b].name,
                                   settings |-> newSettings]]
                /\ response' = Responded(q.pc, q.caller, b, TRUE, "none")
        /\ UNCHANGED <<users, user_businesses, whatsapp_numbers, sessions>>
        /\ UNCHANGED bot_vars

\* saveGoogleCalendarCredentials up to prisma.businesses.findUnique
saveGoogleCalendarCredentials_begin(r, a, b, credentials) ==
    /\ requests[r] = IdleRequest
    /\ IF sessions[a] = NoSession
       THEN /\ response' = Responded("saveGoogleCalendarCredentials", a, b, FALSE,
                                     "Unauthorized")
            /\ UNCHANGED requests
       ELSE IF ~canEditBusiness(sessions[a], b)
       THEN /\ response' = Responded("saveGoogleCalendarCredentials", a, b, FALSE,
                                     "Access denied")
            /\ UNCHANGED requests
       ELSE IF ~RowExists(b)
       THEN /\ response' = Responded("saveGoogleCalendarCredentials", a, b, FALSE,
                                     "Business not found")
            /\ UNCHANGED requests
       ELSE /\ Begun(r, "saveGoogleCalendarCredentials", a, b, credentials)
            /\ response' = NoResponse
    /\ UNCHANGED <<businesses, users, user_businesses, whatsapp_numbers, sessions>>
    /\ UNCHANGED bot_vars

\* the google_calendar entry saveGoogleCalendarCredentials builds, encrypt
\* drawing iv1 and then iv2
googleCalendarSettings(credentials, iv1, iv2) ==
    [client_secret |-> encrypt(GOOGLE_CLIENT_SECRET, iv1),
     refresh_token |-> encrypt(credentials.refresh_token, iv2),
     access_token |-> credentials.access_token,
     is_configured |-> TRUE]

\* saveGoogleCalendarCredentials from the encryption on
saveGoogleCalendarCredentials_commit(r, iv1, iv2) ==
    LET q == requests[r]
        b == q.business
        currentSettings == q.read
        newSettings ==
            [currentSettings EXCEPT
                !.google_calendar = googleCalendarSettings(q.arg, iv1, iv2)]
    IN  /\ q.pc = "saveGoogleCalendarCredentials"
        /\ requests' = [requests EXCEPT ![r] = IdleRequest]
        /\ IF ~RowExists(b)
           THEN /\ response' = Responded(q.pc, q.caller, b, FALSE,
                                         "Failed to save calendar credentials")
                /\ UNCHANGED businesses
           ELSE /\ businesses' = [businesses EXCEPT ![b].settings = newSettings]
                /\ response' = Responded(q.pc, q.caller, b, TRUE, "none")
        /\ UNCHANGED <<users, user_businesses, whatsapp_numbers, sessions>>
        /\ UNCHANGED bot_vars

\* disconnectGoogleCalendar up to prisma.businesses.findUnique
disconnectGoogleCalendar_begin(r, a, b) ==
    /\ requests[r] = IdleRequest
    /\ IF sessions[a] = NoSession
       THEN /\ response' = Responded("disconnectGoogleCalendar", a, b, FALSE, "Unauthorized")
            /\ UNCHANGED requests
       ELSE IF ~canEditBusiness(sessions[a], b)
       THEN /\ response' = Responded("disconnectGoogleCalendar", a, b, FALSE,
                                     "Access denied")
            /\ UNCHANGED requests
       ELSE IF ~RowExists(b)
       THEN /\ response' = Responded("disconnectGoogleCalendar", a, b, FALSE,
                                     "Business not found")
            /\ UNCHANGED requests
       ELSE /\ Begun(r, "disconnectGoogleCalendar", a, b, <<>>)
            /\ response' = NoResponse
    /\ UNCHANGED <<businesses, users, user_businesses, whatsapp_numbers, sessions>>
    /\ UNCHANGED bot_vars

\* disconnectGoogleCalendar from prisma.businesses.update on
disconnectGoogleCalendar_commit(r) ==
    LET q == requests[r]
        b == q.business
        currentSettings == q.read
        newSettings == [currentSettings EXCEPT !.google_calendar = NoCalendar]
    IN  /\ q.pc = "disconnectGoogleCalendar"
        /\ requests' = [requests EXCEPT ![r] = IdleRequest]
        /\ IF ~RowExists(b)
           THEN /\ response' = Responded(q.pc, q.caller, b, FALSE,
                                         "Failed to disconnect calendar")
                /\ UNCHANGED businesses
           ELSE /\ businesses' = [businesses EXCEPT ![b].settings = newSettings]
                /\ response' = Responded(q.pc, q.caller, b, TRUE, "none")
        /\ UNCHANGED <<users, user_businesses, whatsapp_numbers, sessions>>
        /\ UNCHANGED bot_vars

\* the seeded database the settings pages run on: both businesses exist, root
\* is a super admin, ana is the admin of b1 and ben its staff; all three are
\* signed in
SeededUsers == [a \in Accounts |-> IF a = "root" THEN [role |-> "super_admin"]
                                                 ELSE [role |-> "null"]]

SeededUserBusinesses ==
    [a \in Accounts, b \in Businesses |->
        IF b # DefaultBusiness THEN "none"
        ELSE IF a = "ana" THEN "admin"
        ELSE IF a = "ben" THEN "staff"
        ELSE "none"]

InitSettings ==
    /\ businesses = [b \in Businesses |->
                        [name |-> "n1", settings |-> [EmptySettings EXCEPT !.phone = "p1"]]]
    /\ users = SeededUsers
    /\ user_businesses = SeededUserBusinesses
    /\ whatsapp_numbers = <<>>
    /\ sessions = [c \in Browsers |-> IF c \in Accounts THEN SessionOf(c) ELSE NoSession]
    /\ requests = [r \in Requests |-> IdleRequest]
    /\ response = NoResponse
    /\ appts = <<>>
    /\ now = 0
    /\ max_concurrent = 2
    /\ call = [p \in Callers |-> IdleCall]
    /\ reply = NoReply
    /\ dedup_mode = "durable"
    /\ NoPipeline
    /\ NoTenants

\* who calls the settings actions on which business: everybody on b1, and ana,
\* the admin of b1, on b2
SettingsCalls == {<<a, DefaultBusiness>> : a \in Browsers} \cup {<<"ana", "b2">>}

\* the settings form submits in slot r1, the calendar card in slot r2
NextSettings ==
    \/ \E c \in SettingsCalls :
          \/ \E settings \in Patches :
                updateBusinessSettings_begin("r1", c[1], c[2], settings)
          \/ \E credentials \in Credentials :
                saveGoogleCalendarCredentials_begin("r2", c[1], c[2], credentials)
          \/ disconnectGoogleCalendar_begin("r2", c[1], c[2])
    \/ updateBusinessSettings_commit("r1")
    \/ \E iv1, iv2 \in SaveNonces : saveGoogleCalendarCredentials_commit("r2", iv1, iv2)
    \/ disconnectGoogleCalendar_commit("r2")

SpecSettings == InitSettings /\ [][NextSettings]_vars

\* stored is what encrypt returns for raw with one of the nonces
IsOutputOfEncrypt(stored, raw) == \E iv \in Nonces : stored = encrypt(raw, iv)

\* C21: a calendar credential is never persisted in plaintext: every secret of a
\* google_calendar entry saveGoogleCalendarCredentials stored (the OAuth client
\* secret, the refresh token and the access token) is an output of encrypt
C21_SecretsEncrypted ==
    \A b \in Businesses :
        (RowExists(b) /\ businesses[b].settings.google_calendar # NoCalendar) =>
            LET g == businesses[b].settings.google_calendar
            IN  /\ IsOutputOfEncrypt(g.client_secret, GOOGLE_CLIENT_SECRET)
                /\ \E c \in Credentials :
                      /\ IsOutputOfEncrypt(g.refresh_token, c.refresh_token)
                      /\ IsOutputOfEncrypt(g.access_token, c.access_token)

\* the session of caller c is a super admin's, or lists business b with role admin
MayEdit(c, b) ==
    \/ sessions[c].role = "super_admin"
    \/ [businessId |-> b, role |-> "admin"] \in sessions[c].businesses

SettingsActions ==
    {"updateBusinessSettings", "saveGoogleCalendarCredentials", "disconnectGoogleCalendar"}

\* C23: updateBusinessSettings, saveGoogleCalendarCredentials and
\* disconnectGoogleCalendar change a business's name or settings only when the
\* caller's session is a super admin or an admin of that very business; called
\* by anyone else (staff, an admin of another business, no session) they return
\* an error and leave the businesses table unchanged
C23_OnlyEditorsChangeBusiness ==
    [][
       /\ \A b \in Businesses :
             businesses'[b] # businesses[b] =>
                \E r \in Requests :
                   /\ requests[r].pc \in SettingsActions
                   /\ requests'[r] = IdleRequest
                   /\ requests[r].business = b
                   /\ MayEdit(requests[r].caller, b)
       /\ (/\ response'.action \in SettingsActions
           /\ ~MayEdit(response'.caller, response'.business))
             => (~response'.success /\ businesses' = businesses)
      ]_vars

\* ana, the admin of b1, has renamed b1 and connected its calendar; ben, staff of
\* b1, has just been refused an edit of b1
C23_Witness ==
    /\ businesses["b1"].name = "n2"
    /\ businesses["b1"].settings.google_calendar # NoCalendar
    /\ response = Responded("updateBusinessSettings", "ben", "b1", FALSE,
                            "You don't have permission to edit this business")

\* C29: writes to different parts of one business's settings never overwrite each
\* other: a successful updateBusinessSettings leaves the google_calendar entry as
\* the calendar actions left it, and a successful saveGoogleCalendarCredentials
\* or disconnectGoogleCalendar leaves the fields of the settings form as they
\* were, whatever ran in between
C29_SettingsWritesIndependent ==
    [][
       \A b \in Businesses :
          (response'.success /\ response'.business = b) =>
             /\ response'.action = "updateBusinessSettings" =>
                   businesses'[b].settings.google_calendar
                       = businesses[b].settings.google_calendar
             /\ response'.action \in {"saveGoogleCalendarCredentials",
                                      "disconnectGoogleCalendar"} =>
                   businesses'[b].settings.phone = businesses[b].settings.phone
      ]_vars

----------------------------------------------------------------------------
(* Admin console: the WhatsApp numbers of a business *)

\* a number is a string of code units: "1" is 49, "+" is 43
IsDigit(c) == 48 <= c /\ c <= 57

\* /^\d{10,25}$/.test(phoneNumberId)
ValidPhoneNumberId(phoneNumberId) ==
    /\ 10 <= Len(phoneNumberId) /\ Len(phoneNumberId) <= 25
    /\ \A k \in DOMAIN phoneNumberId : IsDigit(phoneNumberId[k])

\* /^\+?\d{10,15}$/.test(phoneNumber) after spaces and dashes are removed
ValidPhoneNumber(phoneNumber) ==
    LET kept == SelectSeq(phoneNumber, LAMBDA c : c # 32 /\ c # 45)
        digits == IF kept # <<>> /\ kept[1] = 43 THEN Tail(kept) ELSE kept
    IN  /\ 10 <= Len(digits) /\ Len(digits) <= 15
        /\ \A k \in DOMAIN digits : IsDigit(digits[k])

\* the phone number ids entered: ten "1", ten "2", and nine "1" (too short)
PhoneNumberIds == {[k \in 1 .. 10 |-> 49], [k \in 1 .. 10 |-> 50], [k \in 1 .. 9 |-> 49]}

\* the display numbers entered: "+" and ten "3", and "+3" (too short)
PhoneNumbers == {<<43>> \o [k \in 1 .. 10 |-> 51], <<43, 51>>}

\* the rows with this phone_number_id
RowsWithId(phoneNumberId) ==
    {k \in DOMAIN whatsapp_numbers : whatsapp_numbers[k].phone_number_id = phoneNumberId}

\* a table without the UNIQUE constraint on phone_number_id
whatsapp_numbers_create_any(data) == <<TRUE, Append(whatsapp_numbers, data)>>

\* prisma.whatsapp_numbers.create: whether the insert is accepted (business_id
\* references a business, phone_number_id is UNIQUE), and the table after it
whatsapp_numbers_create(data) ==
    IF RowExists(data.business_id) /\ RowsWithId(data.phone_number_id) = {}
    THEN <<TRUE, Append(whatsapp_numbers, data)>>
    ELSE <<FALSE, whatsapp_numbers>>

\* addWhatsAppNumber up to prisma.whatsapp_numbers.findUnique
addWhatsAppNumber_begin(r, a, data) ==
    /\ requests[r] = IdleRequest
    /\ IF sessions[a] = NoSession
       THEN /\ response' = Responded("addWhatsAppNumber", a, data.businessId, FALSE,
                                     "Unauthorized")
            /\ UNCHANGED requests
       ELSE IF ~isSuperAdmin(sessions[a])
       THEN /\ response' = Responded("addWhatsAppNumber", a, data.businessId, FALSE,
                                     "Only super admins can add WhatsApp numbers")
            /\ UNCHANGED requests
       ELSE IF ~ValidPhoneNumberId(data.phoneNumberId)
       THEN /\ response' = Responded("addWhatsAppNumber", a, data.businessId, FALSE,
                                     "Invalid Phone Number ID format")
            /\ UNCHANGED requests
       ELSE IF ~ValidPhoneNumber(data.phoneNumber)
       THEN /\ response' = Responded("addWhatsAppNumber", a, data.businessId, FALSE,
                                     "Invalid phone number format")
            /\ UNCHANGED requests
       ELSE IF RowsWithId(data.phoneNumberId) # {}
       THEN /\ response' = Responded("addWhatsAppNumber", a, data.businessId, FALSE,
                                     "This Phone Number ID is already registered to another business")
            /\ UNCHANGED requests
       ELSE /\ requests' = [requests EXCEPT
                               ![r] = [pc |-> "addWhatsAppNumber", caller |-> a,
                                       business |-> data.businessId, read |-> <<>>,
                                       arg |-> data]]
            /\ response' = NoResponse
    /\ UNCHANGED <<businesses, users, user_businesses, whatsapp_numbers, sessions>>
    /\ UNCHANGED bot_vars

\* addWhatsAppNumber from prisma.whatsapp_numbers.create on
addWhatsAppNumber_commit(r) ==
    LET q == requests[r]
        created == whatsapp_numbers_create(
                       [business_id |-> q.arg.businessId,
                        phone_number_id |-> q.arg.phoneNumberId,
                        phone_number |-> q.arg.phoneNumber,
                        is_active |-> TRUE])
    IN  /\ q.pc = "addWhatsAppNumber"
        /\ requests' = [requests EXCEPT ![r] = IdleRequest]
        /\ whatsapp_numbers' = created[2]
        /\ response' = IF created[1]
                       THEN Responded(q.pc, q.caller, q.business, TRUE, "none")
                       ELSE Responded(q.pc, q.caller, q.business, FALSE,
                                      "Failed to add WhatsApp number")
        /\ UNCHANGED <<businesses, users, user_businesses, sessions>>
        /\ UNCHANGED bot_vars

\* toggleWhatsAppNumberStatus(id), id being that of row k
toggleWhatsAppNumberStatus(a, k) ==
    /\ k \in DOMAIN whatsapp_numbers
    /\ IF sessions[a] = NoSession
       THEN /\ response' = Responded("toggleWhatsAppNumberStatus", a,
                                     whatsapp_numbers[k].business_id, FALSE, "Unauthorized")
            /\ UNCHANGED whatsapp_numbers
       ELSE IF ~isSuperAdmin(sessions[a])
       THEN /\ response' = Responded("toggleWhatsAppNumberStatus", a,
                                     whatsapp_numbers[k].business_id, FALSE,
                                     "Only super admins can modify WhatsApp numbers")
            /\ UNCHANGED whatsapp_numbers
       ELSE /\ whatsapp_numbers' =
                   [whatsapp_numbers EXCEPT ![k].is_active = ~whatsapp_numbers[k].is_active]
            /\ response' = Responded("toggleWhatsAppNumberStatus", a,
                                     whatsapp_numbers[k].business_id, TRUE, "none")
    /\ UNCHANGED <<businesses, users, user_businesses, sessions, requests>>
    /\ UNCHANGED bot_vars

\* deleteWhatsAppNumber(id), id being that of row k
deleteWhatsAppNumber(a, k) ==
    /\ k \in DOMAIN whatsapp_numbers
    /\ IF sessions[a] = NoSession
       THEN /\ response' = Responded("deleteWhatsAppNumber", a,
                                     whatsapp_numbers[k].business_id, FALSE, "Unauthorized")
            /\ UNCHANGED whatsapp_numbers
       ELSE IF ~isSuperAdmin(sessions[a])
       THEN /\ response' = Responded("deleteWhatsAppNumber", a,
                                     whatsapp_numbers[k].business_id, FALSE,
                                     "Only super admins can delete WhatsApp numbers")
            /\ UNCHANGED whatsapp_numbers
       ELSE /\ whatsapp_numbers' =
                   SubSeq(whatsapp_numbers, 1, k - 1)
                       \o SubSeq(whatsapp_numbers, k + 1, Len(whatsapp_numbers))
            /\ response' = Responded("deleteWhatsAppNumber", a,
                                     whatsapp_numbers[k].business_id, TRUE, "none")
    /\ UNCHANGED <<businesses, users, user_businesses, sessions, requests>>
    /\ UNCHANGED bot_vars

\* the forms submitted: any business with any id and display number
NumberForms ==
    [businessId : Businesses, phoneNumberId : PhoneNumberIds, phoneNumber : PhoneNumbers]

\* the callers of the number actions: root, a super admin, and ana, who is none
NumberCallers == {"root", "ana"}

NextChannels ==
    \/ \E r \in Requests, a \in NumberCallers, data \in NumberForms :
          addWhatsAppNumber_begin(r, a, data)
    \/ \E r \in Requests : addWhatsAppNumber_commit(r)
    \/ \E a \in NumberCallers, k \in 1 .. Cardinality(PhoneNumberIds) :
          \/ toggleWhatsAppNumberStatus(a, k)
          \/ deleteWhatsAppNumber(a, k)

SpecChannels == InitSettings /\ [][NextChannels]_vars

\* no two rows of whatsapp_numbers have the same phone_number_id
OneBusinessPerChannel ==
    \A i, j \in DOMAIN whatsapp_numbers :
        whatsapp_numbers[i].phone_number_id = whatsapp_numbers[j].phone_number_id
            => i = j

\* C22: each phone_number_id is bound to at most one business: repeated or
\* concurrent addWhatsAppNumber calls with the same phoneNumberId create at most
\* one row, a call succeeds exactly when it adds the row for an id that had
\* none, and a call that loses returns an error and leaves the table unchanged
C22_OneBusinessPerChannel ==
    [][
       /\ OneBusinessPerChannel'
       /\ response'.action = "addWhatsAppNumber" =>
             IF response'.success
             THEN \E r \in Requests :
                     /\ requests[r].pc = "addWhatsAppNumber"
                     /\ requests'[r] = IdleRequest
                     /\ RowsWithId(requests[r].arg.phoneNumberId) = {}
                     /\ Len(whatsapp_numbers') = Len(whatsapp_numbers) + 1
                     /\ SubSeq(whatsapp_numbers', 1, Len(whatsapp_numbers))
                            = whatsapp_numbers
                     /\ whatsapp_numbers'[Len(whatsapp_numbers')].phone_number_id
                            = requests[r].arg.phoneNumberId
             ELSE whatsapp_numbers' = whatsapp_numbers
      ]_vars

\* the same phone number id was submitted for b1 and for b2 at once: it is bound
\* to b1, and the call for b2 has just failed on the insert
C22_Witness ==
    /\ response = Responded("addWhatsAppNumber", "root", "b2", FALSE,
                            "Failed to add WhatsApp number")
    /\ \E k \in DOMAIN whatsapp_numbers :
          /\ whatsapp_numbers[k].business_id = "b1"
          /\ \A r \in Requests : requests[r] = IdleRequest

----------------------------------------------------------------------------
(* Admin console: businesses, users and their assignments *)

\* the ids gen_random_uuid() may give a new business: those never issued
FreshBusinessIds == {b \in Businesses : businesses[b] = NoBusinessRow}

\* ON DELETE CASCADE of user_businesses and whatsapp_numbers for business b
CascadeBusiness(b) ==
    /\ user_businesses' = [a \in Accounts, x \in Businesses |->
                              IF x = b THEN "none" ELSE user_businesses[a, x]]
    /\ whatsapp_numbers' = SelectSeq(whatsapp_numbers, LAMBDA n : n.business_id # b)

\* createBusiness(data)
createBusiness(a) ==
    /\ \E b \in FreshBusinessIds :
          IF sessions[a] = NoSession
          THEN /\ response' = Responded("createBusiness", a, "none", FALSE, "Unauthorized")
               /\ UNCHANGED businesses
          ELSE IF ~isSuperAdmin(sessions[a])
          THEN /\ response' = Responded("createBusiness", a, "none", FALSE,
                                        "Only super admins can create businesses")
               /\ UNCHANGED businesses
          ELSE /\ businesses' = [businesses EXCEPT
                                    ![b] = [name |-> "n1", settings |-> EmptySettings]]
               /\ response' = Responded("createBusiness", a, b, TRUE, "none")
    /\ UNCHANGED <<users, user_businesses, whatsapp_numbers, sessions, requests>>
    /\ UNCHANGED bot_vars

\* deleteBusiness(businessId)
deleteBusiness(a, b) ==
    /\ IF sessions[a] = NoSession
       THEN /\ response' = Responded("deleteBusiness", a, b, FALSE, "Unauthorized")
            /\ UNCHANGED <<businesses, user_businesses, whatsapp_numbers>>
       ELSE IF ~isSuperAdmin(sessions[a])
       THEN /\ response' = Responded("deleteBusiness", a, b, FALSE,
                                     "Only super admins can delete businesses")
            /\ UNCHANGED <<businesses, user_businesses, whatsapp_numbers>>
       ELSE IF ~RowExists(b)
       THEN /\ response' = Responded("deleteBusiness", a, b, FALSE,
                                     "Failed to delete business")
            /\ UNCHANGED <<businesses, user_businesses, whatsapp_numbers>>
       ELSE /\ businesses' = [businesses EXCEPT ![b] = DeletedBusinessRow]
            /\ CascadeBusiness(b)
            /\ response' = Responded("deleteBusiness", a, b, TRUE, "none")
    /\ UNCHANGED <<users, sessions, requests>>
    /\ UNCHANGED bot_vars

\* getBusinessSettings(businessId): the settings page of a business
getBusinessSettings(a, b) ==
    /\ response' = IF sessions[a] = NoSession
                   THEN Responded("getBusinessSettings", a, b, FALSE, "Unauthorized")
                   ELSE IF ~canAccessBusiness(sessions[a], b)
                   THEN Responded("getBusinessSettings", a, b, FALSE,
                                  "Access denied to this business")
                   ELSE IF ~RowExists(b)
                   THEN Responded("getBusinessSettings", a, b, FALSE, "null")
                   ELSE Responded("getBusinessSettings", a, b, TRUE, "none")
    /\ UNCHANGED <<businesses, users, user_businesses, whatsapp_numbers, sessions, requests>>
    /\ UNCHANGED bot_vars

\* createUser(data)
createUser(a, email, role) ==
    /\ IF sessions[a] = NoSession \/ ~isSuperAdmin(sessions[a])
       THEN /\ response' = Responded("createUser", a, "none", FALSE,
                                     "Only super admins can create users")
            /\ UNCHANGED users
       ELSE IF users[email] # NoUser
       THEN /\ response' = Responded("createUser", a, "none", FALSE,
                                     "A user with this email already exists")
            /\ UNCHANGED users
       ELSE /\ users' = [users EXCEPT ![email] = [role |-> role]]
            /\ response' = Responded("createUser", a, "none", TRUE, "none")
    /\ UNCHANGED <<businesses, user_businesses, whatsapp_numbers, sessions, requests>>
    /\ UNCHANGED bot_vars

\* updateUser(userId, { role })
updateUser(a, userId, role) ==
    /\ IF sessions[a] = NoSession \/ ~isSuperAdmin(sessions[a])
       THEN /\ response' = Responded("updateUser", a, "none", FALSE,
                                     "Only super admins can update users")
            /\ UNCHANGED users
       ELSE IF users[userId] = NoUser
       THEN /\ response' = Responded("updateUser", a, "none", FALSE, "Failed to update user")
            /\ UNCHANGED users
       ELSE /\ users' = [users EXCEPT ![userId].role = role]
            /\ response' = Responded("updateUser", a, "none", TRUE, "none")
    /\ UNCHANGED <<businesses, user_businesses, whatsapp_numbers, sessions, requests>>
    /\ UNCHANGED bot_vars

\* deleteUser(userId)
deleteUser(a, userId) ==
    /\ IF sessions[a] = NoSession \/ ~isSuperAdmin(sessions[a])
       THEN /\ response' = Responded("deleteUser", a, "none", FALSE,
                                     "Only super admins can delete users")
            /\ UNCHANGED <<users, user_businesses>>
       ELSE IF sessions[a].id = userId
       THEN /\ response' = Responded("deleteUser", a, "none", FALSE,
                                     "You cannot delete your own account")
            /\ UNCHANGED <<users, user_businesses>>
       ELSE IF users[userId] = NoUser
       THEN /\ response' = Responded("deleteUser", a, "none", FALSE, "Failed to delete user")
            /\ UNCHANGED <<users, user_businesses>>
       ELSE /\ users' = [users EXCEPT ![userId] = NoUser]
            /\ user_businesses' = [u \in Accounts, b \in Businesses |->
                                      IF u = userId THEN "none" ELSE user_businesses[u, b]]
            /\ response' = Responded("deleteUser", a, "none", TRUE, "none")
    /\ UNCHANGED <<businesses, whatsapp_numbers, sessions, requests>>
    /\ UNCHANGED bot_vars

\* assignUserToBusiness(userId, businessId, role)
assignUserToBusiness(a, userId, b, requested) ==
    LET canAssign == isSuperAdmin(sessions[a]) \/ canEditBusiness(sessions[a], b)
        role == IF ~isSuperAdmin(sessions[a]) /\ requested = "admin"
                THEN "staff"
                ELSE requested
    IN  /\ IF sessions[a] = NoSession
           THEN /\ response' = Responded("assignUserToBusiness", a, b, FALSE, "Unauthorized")
                /\ UNCHANGED user_businesses
           ELSE IF ~canAssign
           THEN /\ response' = Responded("assignUserToBusiness", a, b, FALSE,
                                         "You don't have permission to assign users to this business")
                /\ UNCHANGED user_businesses
           ELSE IF user_businesses[userId, b] = "none"
                     /\ (users[userId] = NoUser \/ ~RowExists(b))
           THEN /\ response' = Responded("assignUserToBusiness", a, b, FALSE,
                                         "Failed to assign user to business")
                /\ UNCHANGED user_businesses
           ELSE /\ user_businesses' = [user_businesses EXCEPT ![userId, b] = role]
                /\ response' = Responded("assignUserToBusiness", a, b, TRUE, "none")
        /\ UNCHANGED <<businesses, users, whatsapp_numbers, sessions, requests>>
        /\ UNCHANGED bot_vars

\* removeUserFromBusiness(userId, businessId)
removeUserFromBusiness(a, userId, b) ==
    LET canRemove == isSuperAdmin(sessions[a]) \/ canEditBusiness(sessions[a], b)
    IN  /\ IF sessions[a] = NoSession
           THEN /\ response' = Responded("removeUserFromBusiness", a, b, FALSE,
                                         "Unauthorized")
                /\ UNCHANGED user_businesses
           ELSE IF ~canRemove
           THEN /\ response' = Responded("removeUserFromBusiness", a, b, FALSE,
                                         "You don't have permission to remove users from this business")
                /\ UNCHANGED user_businesses
           ELSE /\ user_businesses' = [user_businesses EXCEPT ![userId, b] = "none"]
                /\ response' = Responded("removeUserFromBusiness", a, b, TRUE, "none")
        /\ UNCHANGED <<businesses, users, whatsapp_numbers, sessions, requests>>
        /\ UNCHANGED bot_vars

\* inviteUserToBusiness(businessId, { email, role })
inviteUserToBusiness(a, b, email, role) ==
    LET canInvite == isSuperAdmin(sessions[a]) \/ canEditBusiness(sessions[a], b)
    IN  /\ IF sessions[a] = NoSession
           THEN /\ response' = Responded("inviteUserToBusiness", a, b, FALSE, "Unauthorized")
                /\ UNCHANGED <<users, user_businesses>>
           ELSE IF ~canInvite
           THEN /\ response' = Responded("inviteUserToBusiness", a, b, FALSE,
                                         "You don't have permission to invite users to this business")
                /\ UNCHANGED <<users, user_businesses>>
           ELSE IF users[email] # NoUser /\ user_businesses[email, b] # "none"
           THEN /\ response' = Responded("inviteUserToBusiness", a, b, FALSE,
                                         "User is already assigned to this business")
                /\ UNCHANGED <<users, user_businesses>>
           ELSE /\ users' = IF users[email] = NoUser
                            THEN [users EXCEPT ![email] = [role |-> "null"]]
                            ELSE users
                /\ IF RowExists(b)
                   THEN /\ user_businesses' = [user_businesses EXCEPT ![email, b] = role]
                        /\ response' = Responded("inviteUserToBusiness", a, b, TRUE, "none")
                   ELSE /\ UNCHANGED user_businesses
                        /\ response' = Responded("inviteUserToBusiness", a, b, FALSE,
                                                 "Failed to invite user")
        /\ UNCHANGED <<businesses, whatsapp_numbers, sessions, requests>>
        /\ UNCHANGED bot_vars

\* the console as installed: business b1, and root, a super admin, signed in
InitRoles ==
    /\ businesses = [b \in Businesses |->
                        IF b = DefaultBusiness
                        THEN [name |-> "n1", settings |-> [EmptySettings EXCEPT !.phone = "p1"]]
                        ELSE NoBusinessRow]
    /\ users = [a \in Accounts |-> IF a = "root" THEN [role |-> "super_admin"] ELSE NoUser]
    /\ user_businesses = [a \in Accounts, b \in Businesses |-> "none"]
    /\ whatsapp_numbers = <<>>
    /\ sessions = [c \in Browsers |->
                      IF c = "root"
                      THEN [id |-> "root", role |-> "super_admin", businesses |-> {}]
                      ELSE NoSession]
    /\ requests = [r \in Requests |-> IdleRequest]
    /\ response = NoResponse
    /\ appts = <<>>
    /\ now = 0
    /\ max_concurrent = 2
    /\ call = [p \in Callers |-> IdleCall]
    /\ reply = NoReply
    /\ dedup_mode = "durable"
    /\ NoPipeline
    /\ NoTenants

\* who calls the team actions on which business: root and ana on b1, ana on b2
TeamCalls == {<<"root", DefaultBusiness>>, <<"ana", DefaultBusiness>>, <<"ana", "b2">>}

\* the callers of the other actions, the accounts acted on, the roles asked for
RoleCallers == {"root", "ana"}
RoleTargets == {"ana", "ben"}
RequestedRoles == {"admin", "staff"}

\* the users created and edited: ana and ben as business users, ben as super admin
UserForms == {<<"ana", "null">>, <<"ben", "null">>, <<"ben", "super_admin">>}

NextRoles ==
    \/ authorize("ana")
    \/ \E a \in RoleCallers :
          \/ createBusiness(a)
          \/ \E b \in Businesses : deleteBusiness(a, b)
          \/ \E u \in RoleTargets : deleteUser(a, u)
          \/ \E f \in UserForms :
                \/ createUser(a, f[1], f[2])
                \/ updateUser(a, f[1], f[2])
    \/ \E c \in TeamCalls :
          \/ getBusinessSettings(c[1], c[2])
          \/ \E u \in RoleTargets :
                \/ removeUserFromBusiness(c[1], u, c[2])
                \/ \E role \in RequestedRoles :
                      assignUserToBusiness(c[1], u, c[2], role)
          \/ \E role \in RequestedRoles :
                inviteUserToBusiness(c[1], c[2], "ben", role)

SpecRoles == InitRoles /\ [][NextRoles]_vars

\* the session of the caller of the action that has just returned is a super
\* admin's
SuperAdminCalled == sessions[response'.caller].role = "super_admin"

C25_NonSuperAdminsGiveStaff ==
    [][
       \A u \in Accounts, b \in Businesses :
          (/\ user_businesses'[u, b] # user_businesses[u, b]
           /\ user_businesses'[u, b] # "none"
           /\ ~SuperAdminCalled)
             => user_businesses'[u, b] = "staff"
      ]_vars

\* the actions on one business that ask for access to it
BusinessScopedActions ==
    {"getBusinessSettings", "assignUserToBusiness", "removeUserFromBusiness",
     "inviteUserToBusiness"}

\* C26: a user who is no super admin and whose assignment to a business was
\* removed has no access to it: every business-scoped action the user calls on
\* that business while having no assignment to it is denied, whenever the
\* session was opened
C26_RemovedUserIsDenied ==
    [][
       \A c \in Accounts, b \in Businesses :
          (/\ response'.action \in BusinessScopedActions
           /\ response'.caller = c
           /\ response'.business = b
           /\ users[c] = [role |-> "null"]
           /\ RowExists(b)
           /\ user_businesses[c, b] = "none")
             => ~response'.success
      ]_vars

\* C27: every user whose system role is not super_admin has at least one
\* user_businesses assignment
C27_BusinessUsersAssigned ==
    \A a \in Accounts :
        (users[a] # NoUser /\ users[a].role # "super_admin")
            => \E b \in Businesses : user_businesses[a, b] # "none"

----------------------------------------------------------------------------
(* Concurrent turns of different tenants and the business context *)

\* appointment_settings.max_concurrent of each tenant
TenantMaxConcurrent == [b \in Businesses |-> IF b = DefaultBusiness THEN 1 ELSE 2]

\* the tool calls a model response may ask for
TenantToolCalls == {1, 2}

\* set_business_context(business_context): the context of the whole process
set_business_context(b) ==
    /\ business_context' = b
    /\ max_concurrent' = TenantMaxConcurrent[b]

\* generate_response(..., business_context) up to the model's first response,
\* which asks for tool_calls tool calls
generate_response_begin(w, b, tool_calls) ==
    /\ turns[w].pc = "idle"
    /\ set_business_context(b)
    /\ turns' = [turns EXCEPT ![w] = [pc |-> "tools", business |-> b, read |-> 0,
                                      todo |-> tool_calls]]
    /\ UNCHANGED <<appts, now, call, reply>>
    /\ UNCHANGED pipe_vars
    /\ UNCHANGED ext_vars
    /\ UNCHANGED console_vars

\* tool.invoke(tool_args) of schedule_appointment, as far as the settings go:
\* max_concurrent = get_max_concurrent()
tool_invoke_reads(w) ==
    /\ turns[w].pc = "tools"
    /\ turns' = [turns EXCEPT ![w].read = get_max_concurrent,
                              ![w].todo = @ - 1,
                              ![w].pc = IF turns[w].todo = 1 THEN "final" ELSE "tools"]
    /\ UNCHANGED <<appts, now, max_concurrent, call, reply, business_context>>
    /\ UNCHANGED pipe_vars
    /\ UNCHANGED ext_vars
    /\ UNCHANGED console_vars

\* the final model invocation; generate_response returns
generate_response_end(w) ==
    /\ turns[w].pc = "final"
    /\ turns' = [turns EXCEPT ![w] = IdleTurn]
    /\ UNCHANGED <<appts, now, max_concurrent, call, reply, business_context>>
    /\ UNCHANGED pipe_vars
    /\ UNCHANGED ext_vars
    /\ UNCHANGED console_vars

InitTenants ==
    /\ appts = <<>>
    /\ now = 0
    /\ max_concurrent = 2
    /\ call = [p \in Callers |-> IdleCall]
    /\ reply = NoReply
    /\ dedup_mode = "durable"
    /\ NoPipeline
    /\ NoConsole
    /\ NoTenants

NextTenants ==
    \E w \in Callers :
        \/ \E b \in Businesses, tool_calls \in TenantToolCalls :
              generate_response_begin(w, b, tool_calls)
        \/ tool_invoke_reads(w)
        \/ generate_response_end(w)

SpecTenants == InitTenants /\ [][NextTenants]_vars

\* C28: under any interleaving of concurrent turns for different tenants, every
\* tool invocation of a turn reads the max_concurrent of the tenant that owns
\* the turn
C28_ToolsReadOwnTenant ==
    \A w \in Callers :
        turns[w].read # 0 => turns[w].read = TenantMaxConcurrent[turns[w].business]

----------------------------------------------------------------------------
(* Encryption of stored credentials: isEncrypted *)

\* [0-9a-f] under the i flag
IsHexDigitAnyCase(c) == IsHexDigit(c) \/ c \in {"A", "B", "C", "D", "E", "F"}

\* /^[0-9a-f]+$/i.test(part)
IsHexString(part) == part # <<>> /\ \A k \in DOMAIN part : IsHexDigitAnyCase(part[k])

\* an isEncrypted that does not look at the lengths of the fields
isEncrypted_any_length(text) ==
    LET parts == Split(text, ":")
    IN  IF Len(parts) # 3
        THEN FALSE
        ELSE IsHexString(parts[1]) /\ IsHexString(parts[2]) /\ IsHexString(parts[3])

\* isEncrypted(text)
isEncrypted(text) ==
    LET parts == Split(text, ":")
    IN  IF Len(parts) # 3
        THEN FALSE
        ELSE /\ Len(parts[1]) = IV_LENGTH * 2
             /\ Len(parts[2]) = AUTH_TAG_LENGTH * 2
             /\ IsHexString(parts[1])
             /\ IsHexString(parts[2])
             /\ IsHexString(parts[3])

\* the fields texts are put together from: 32 hex digits in lower case and in
\* upper case, 31 hex digits, and 32 characters of which one is no hex digit
ShapeFields ==
    {[k \in 1 .. 32 |-> "f"], [k \in 1 .. 32 |-> "F"], [k \in 1 .. 31 |-> "f"],
     [k \in 1 .. 32 |-> IF k = 32 THEN "g" ELSE "0"]}

\* the third fields: empty, hex digits, a character that is no hex digit
ShapeTails == {<<>>, <<"a", "B">>, <<"z">>}

\* the texts isEncrypted is given: two, three and four fields
ShapeTexts ==
    {a \o <<":">> \o b : a \in ShapeFields, b \in ShapeTails}
        \cup {a \o <<":">> \o b \o <<":">> \o c :
                 a \in ShapeFields, b \in ShapeFields, c \in ShapeTails}
        \cup {a \o <<":">> \o a \o <<":">> \o c \o <<":">> \o c :
                 a \in ShapeFields, c \in ShapeTails}

InitShape ==
    /\ \/ \E s \in Strings : probe = [fn |-> "encrypt", in |-> s, out |-> <<>>]
       \/ \E t \in ShapeTexts : probe = [fn |-> "text", in |-> t, out |-> <<t>>]
    /\ appts = <<>>
    /\ now = 0
    /\ max_concurrent = 2
    /\ call = [p \in Callers |-> IdleCall]
    /\ reply = NoReply
    /\ dedup_mode = "durable"
    /\ NoConsole
    /\ NoTenants
    /\ conversations = <<>>
    /\ processed = [id \in MsgIds |-> NoRecord]
    /\ trues = [id \in MsgIds |-> 0]
    /\ worker = [w \in Callers |-> IdleWorker]
    /\ thread = [u \in Users |-> <<>>]
    /\ outbox = <<>>
    /\ deliveries = 0

\* encrypt(probe.in), crypto.randomBytes returning iv
EncryptText(iv) ==
    /\ probe.fn = "encrypt"
    /\ probe' = [probe EXCEPT !.fn = "encrypted", !.out = <<encrypt(probe.in, iv)>>]
    /\ UNCHANGED <<appts, now, max_concurrent, call, reply, conversations>>
    /\ UNCHANGED pipe_vars
    /\ UNCHANGED console_vars
    /\ UNCHANGED tenant_vars

\* isEncrypted of the text given, or of what encrypt returned
IsEncrypted ==
    /\ probe.fn \in {"text", "encrypted"}
    /\ probe' = [probe EXCEPT !.fn = IF probe.fn = "text" THEN "checked" ELSE "done",
                              !.out = Append(probe.out, isEncrypted(probe.out[1]))]
    /\ UNCHANGED <<appts, now, max_concurrent, call, reply, conversations>>
    /\ UNCHANGED pipe_vars
    /\ UNCHANGED console_vars
    /\ UNCHANGED tenant_vars

NextShape ==
    \/ \E iv \in Nonces : EncryptText(iv)
    \/ IsEncrypted

SpecShape == InitShape /\ [][NextShape]_vars

\* text is exactly three ":"-separated non-empty fields of hex digits, the first
\* and the second 32 digits long
ThreeHexFields(text) ==
    /\ {k \in DOMAIN text : text[k] = ":"} = {33, 66}
    /\ Len(text) > 66
    /\ \A k \in DOMAIN text \ {33, 66} :
          text[k] \in {"0", "1", "2", "3", "4", "5", "6", "7", "8", "9",
                       "a", "b", "c", "d", "e", "f", "A", "B", "C", "D", "E", "F"}

\* isEncrypted(t) is false for every t that is not of the shape
RejectsOtherShapes ==
    (probe.fn = "checked" /\ ~ThreeHexFields(probe.in)) => ~probe.out[2]

\* C30 (as stated): isEncrypted(encrypt(s)) is true for every string s, the empty
\* string included, and isEncrypted(t) is false for every t that is not exactly
\* three ":"-separated non-empty hex fields with 32 digits in the first two
C30_ShapeAgreesWithEncrypt ==
    /\ probe.fn = "done" => probe.out[2]
    /\ RejectsOtherShapes

\* C30 (amended): isEncrypted(encrypt(s)) is true for every non-empty string s
\* and false for the empty string, whose ciphertext has an empty third field;
\* isEncrypted(t) is false for every t that is not exactly three ":"-separated
\* non-empty hex fields with 32 digits in the first two
C30_ShapeAgreesForNonEmpty ==
    /\ probe.fn = "done" => (probe.out[2] <=> probe.in # <<>>)
    /\ RejectsOtherShapes

\* "a:" was encrypted and the ciphertext was recognised
C30_Witness ==
    /\ probe.fn = "done"
    /\ probe.in = <<97, 58>>
    /\ probe.out[2]

====
